---- MODULE Spec2Model ----
(***************************************************************************)
(* Krio API integrations: the HubSpot, Zendesk and Google Play clients,    *)
(* their record normalizers, the SQLite store and the sync run of main().  *)
(*                                                                         *)
(* Python values are modelled as follows.  A str is a TLA+ string; a dict  *)
(* is a function whose DOMAIN is its key set; a list is a sequence; the    *)
(* bools True/False and None are the reserved strings PyTrue, PyFalse and  *)
(* PyNone, which no vendor text takes; an int that the code converts with  *)
(* str() is a TLA+ integer.  Vendor ids are strings.  A JSON text (the     *)
(* result of json.dumps) is a sequence of <<key, value>> members, so a     *)
(* JSON text and the dict it encodes are different values.                 *)
(***************************************************************************)
EXTENDS Integers, Sequences, FiniteSets, TLC

VARIABLES
    normKind,   \* normalizer under test: the record kind
    normRaw,    \* normalizer under test: the raw vendor record
    normNow,    \* normalizer under test: the fetch-time stamp
    normOut,    \* normalizer under test: the canonical record, or an exception
    db,         \* the unified store: entities, relationships, interactions
    ldb,        \* the per-vendor stores of storage/database.py and database.py
    storeTarget,\* store under test: the method the caller uses
    storeCall,  \* store under test: the last call, its batch and its outcome
    upserted,   \* store under test: per (id, source), the entity last upserted
    call,       \* the client method in progress or last finished
    callArg,    \* its argument: ticket_id of fetch_comments, user_id of fetch_user
    acc,        \* its local list: contacts, companies, deals, tickets, comments, reviews
    cursor,     \* its local cursor: after, params["page"], token
    ret,        \* its outcome: Running, Returned(value) or Raise(exception)
    hubspot,    \* HubSpotClient: rate_limit_remaining, rate_limit_reset
    zendesk,    \* ZendeskClient: rate_limit_remaining, rate_limit_reset
    gplay,      \* GooglePlayClient: access_token, the Authorization header, step of _make_request
    sleeping,   \* seconds of the time.sleep the client is blocked in, 0 when it is not
    resp,       \* the last response a rate-limited client has received
    reqs,       \* the requests the method has sent, in order
    pages,      \* the response bodies the method has processed, in order
    pc,         \* main(): the stage the run is in
    tickets,    \* main(): tickets
    tix,        \* main(): how many tickets the comment loop has taken
    unique_users, \* main(): unique_users
    todo,       \* main(): the user ids the users comprehension has yet to take
    users,      \* main(): users
    trace,      \* the client and store calls main() has made, in order
    served      \* per ticket taken, the author ids of the raw comments served for it

normVars  == <<normKind, normRaw, normNow, normOut>>
storeVars == <<db, ldb, storeTarget, storeCall, upserted>>
clientVars == <<call, callArg, acc, cursor, ret, hubspot, zendesk, gplay, sleeping, resp, reqs, pages>>
mainVars == <<pc, tickets, tix, unique_users, todo, users, trace, served>>
storeGhosts == <<ldb, storeTarget, storeCall, upserted>>

vars == <<normKind, normRaw, normNow, normOut, db, ldb, storeTarget, storeCall, upserted,
          call, callArg, acc, cursor, ret, hubspot, zendesk, gplay, sleeping, resp, reqs, pages,
          pc, tickets, tix, unique_users, todo, users, trace, served>>

----------------------------------------------------------------------------
(* Python built-ins used by the code *)

PyTrue  == "True"
PyFalse == "False"
PyNone  == "None"

EmptyDict == [k \in {} |-> ""]

\* d.get(k, default)
Get(d, k, default) == IF k \in DOMAIN d THEN d[k] ELSE default

\* {k: v for k, v in d.items() if k not in excluded}
Without(d, excluded) == [k \in (DOMAIN d) \ excluded |-> d[k]]

\* d[k] = v
Put(d, k, v) == [x \in (DOMAIN d) \cup {k} |-> IF x = k THEN v ELSE d[x]]

\* an exception raised in place of a value
Raise(e) == [exc |-> e]
IsExc(v) == DOMAIN v = {"exc"}

\* str.strip(): leading and trailing blanks removed
RECURSIVE LStrip(_)
LStrip(s) ==
    IF Len(s) > 0 /\ SubSeq(s, 1, 1) = " " THEN LStrip(SubSeq(s, 2, Len(s))) ELSE s

RECURSIVE RStrip(_)
RStrip(s) ==
    IF Len(s) > 0 /\ SubSeq(s, Len(s), Len(s)) = " "
    THEN RStrip(SubSeq(s, 1, Len(s) - 1)) ELSE s

Strip(s) == RStrip(LStrip(s))

\* str.lower(), letter by letter
UpperLetters == "ABCDEFGHIJKLMNOPQRSTUVWXYZ"
LowerLetters == "abcdefghijklmnopqrstuvwxyz"

LowerChar(c) ==
    IF \E i \in 1..Len(UpperLetters) : SubSeq(UpperLetters, i, i) = c
    THEN LET i == CHOOSE i \in 1..Len(UpperLetters) : SubSeq(UpperLetters, i, i) = c
         IN  SubSeq(LowerLetters, i, i)
    ELSE c

RECURSIVE Lower(_)
Lower(s) ==
    IF Len(s) = 0 THEN s
    ELSE LowerChar(SubSeq(s, 1, 1)) \o Lower(SubSeq(s, 2, Len(s)))

\* str(n) for the one-digit ints of the model
Digits == "0123456789"
IntStr(n) == SubSeq(Digits, n + 1, n + 1)

----------------------------------------------------------------------------
(* json.dumps / json.loads *)

\* the keys whose value is itself a dict
DictKeys == {"properties", "userComment"}

\* members are written in this order (dict order carries no information here)
KeyOrder ==
    << "archived", "createdAt", "updatedAt", "priority", "via", "phone",
       "authorName", "comments", "device", "industry", "pipeline",
       "firstname", "lastname", "email", "createdate", "lastmodifieddate",
       "lifecyclestage", "name", "domain", "dealname", "amount", "dealstage",
       "id", "subject", "status", "created_at", "updated_at", "author_id",
       "body", "public", "role", "text", "starRating", "lastModified",
       "reviewId", "ticket_id", "properties", "userComment" >>

RECURSIVE JsonDumps(_)
JsonDumps(d) ==
    LET ks == SelectSeq(KeyOrder, LAMBDA k : k \in DOMAIN d)
    IN  [i \in 1..Len(ks) |->
            << ks[i], IF ks[i] \in DictKeys THEN JsonDumps(d[ks[i]]) ELSE d[ks[i]] >>]

RECURSIVE JsonLoads(_)
JsonLoads(s) ==
    [k \in {s[i][1] : i \in DOMAIN s} |->
        LET i == CHOOSE i \in DOMAIN s : s[i][1] = k
        IN  IF k \in DictKeys THEN JsonLoads(s[i][2]) ELSE s[i][2]]

----------------------------------------------------------------------------
(* Record normalizers: the body of each fetch loop, one raw record at a time *)

KeyError   == Raise("KeyError")
IndexError == Raise("IndexError")

ContactProps == {"firstname", "lastname", "email", "createdate", "lastmodifieddate", "lifecyclestage"}
CompanyProps == {"name", "domain", "createdate", "lastmodifieddate"}
DealProps    == {"dealname", "amount", "dealstage", "createdate", "lastmodifieddate"}
ObjectMeta   == {"id", "properties", "createdAt", "updatedAt"}

\* HubSpotClient.fetch_contacts, loop body
NormContact(contact) ==
    LET props   == Get(contact, "properties", EmptyDict)
        payload == Put(Without(contact, ObjectMeta), "properties", Without(props, ContactProps))
    IN  IF "id" \notin DOMAIN contact THEN KeyError
        ELSE [ id           |-> contact["id"],
               type         |-> "contact",
               name         |-> Strip(Get(props, "firstname", "") \o " " \o Get(props, "lastname", "")),
               email        |-> Get(props, "email", ""),
               created_at   |-> Get(props, "createdate", ""),
               updated_at   |-> Get(props, "lastmodifieddate", ""),
               source       |-> "hubspot",
               json_payload |-> JsonDumps(payload) ]

\* HubSpotClient.fetch_companies, loop body
NormCompany(company) ==
    LET props   == Get(company, "properties", EmptyDict)
        payload == Put(Without(company, ObjectMeta), "properties", Without(props, CompanyProps))
    IN  IF "id" \notin DOMAIN company THEN KeyError
        ELSE [ id           |-> company["id"],
               type         |-> "company",
               name         |-> Get(props, "name", ""),
               domain       |-> Get(props, "domain", ""),
               created_at   |-> Get(props, "createdate", ""),
               updated_at   |-> Get(props, "lastmodifieddate", ""),
               source       |-> "hubspot",
               json_payload |-> JsonDumps(payload) ]

\* HubSpotClient.fetch_deals, loop body
NormDeal(deal) ==
    LET props   == Get(deal, "properties", EmptyDict)
        payload == Put(Without(deal, ObjectMeta), "properties", Without(props, DealProps))
    IN  IF "id" \notin DOMAIN deal THEN KeyError
        ELSE [ id           |-> deal["id"],
               type         |-> "deal",
               name         |-> Get(props, "dealname", ""),
               status       |-> Get(props, "dealstage", ""),
               amount       |-> Get(props, "amount", ""),
               created_at   |-> Get(props, "createdate", ""),
               updated_at   |-> Get(props, "lastmodifieddate", ""),
               source       |-> "hubspot",
               json_payload |-> JsonDumps(payload) ]

\* NormTicket with ticket.get("status") in place of ticket.get("status", "")
NormTicketNoDefault(ticket) ==
    LET payload == Without(ticket, {"id", "subject", "status", "created_at", "updated_at"})
    IN  IF "id" \notin DOMAIN ticket THEN KeyError
        ELSE [ id           |-> ticket["id"],
               type         |-> "ticket",
               name         |-> Get(ticket, "subject", ""),
               status       |-> Get(ticket, "status", PyNone),
               created_at   |-> Get(ticket, "created_at", ""),
               updated_at   |-> Get(ticket, "updated_at", ""),
               source       |-> "zendesk",
               json_payload |-> JsonDumps(payload) ]

\* ZendeskClient.fetch_tickets, loop body
NormTicket(ticket) ==
    LET payload == Without(ticket, {"id", "subject", "status", "created_at", "updated_at"})
    IN  IF "id" \notin DOMAIN ticket THEN KeyError
        ELSE [ id           |-> ticket["id"],
               type         |-> "ticket",
               name         |-> Get(ticket, "subject", ""),
               status       |-> Get(ticket, "status", ""),
               created_at   |-> Get(ticket, "created_at", ""),
               updated_at   |-> Get(ticket, "updated_at", ""),
               source       |-> "zendesk",
               json_payload |-> JsonDumps(payload) ]

\* the default of comment.get("public", True)
PublicDefault == PyTrue

\* ZendeskClient.fetch_comments, loop body
NormComment(comment, ticket_id) ==
    LET payload == Without(comment, {"id", "ticket_id", "author_id", "body", "created_at", "public"})
    IN  IF "id" \notin DOMAIN comment \/ "author_id" \notin DOMAIN comment THEN KeyError
        ELSE [ id           |-> comment["id"],
               entity_type  |-> "ticket",
               entity_id    |-> ticket_id,
               author_id    |-> comment["author_id"],
               body         |-> Get(comment, "body", ""),
               created_at   |-> Get(comment, "created_at", ""),
               is_public    |-> Get(comment, "public", PublicDefault),
               source       |-> "zendesk",
               json_payload |-> JsonDumps(payload) ]

\* ZendeskClient.fetch_user, after the request: data is the response body
NormUser(data) ==
    LET user    == Get(data, "user", EmptyDict)
        payload == Without(user, {"id", "name", "email", "role", "created_at", "updated_at"})
    IN  [ id           |-> Get(user, "id", PyNone),
          type         |-> "user",
          name         |-> Get(user, "name", ""),
          email        |-> Get(user, "email", ""),
          role         |-> Get(user, "role", ""),
          created_at   |-> Get(user, "created_at", ""),
          updated_at   |-> Get(user, "updated_at", ""),
          source       |-> "zendesk",
          json_payload |-> JsonDumps(payload) ]

\* GooglePlayClient.fetch_reviews, loop body; now is time.strftime(..., time.gmtime())
NormReview(review, package_name, now) ==
    LET comments == Get(review, "comments", << EmptyDict >>)
        comment  == Get(comments[1], "userComment", EmptyDict)
        payload  == Put(Without(review, {"reviewId", "comments"}), "userComment",
                        Without(comment, {"text", "starRating", "lastModified"}))
    IN  IF Len(comments) = 0 THEN IndexError
        ELSE [ id           |-> Get(review, "reviewId", PyNone),
               type         |-> "review",
               package_name |-> package_name,
               rating       |-> IF "starRating" \in DOMAIN comment
                                THEN IntStr(comment["starRating"]) ELSE "",
               comment      |-> Get(comment, "text", ""),
               created_at   |-> now,
               source       |-> "google_play",
               json_payload |-> JsonDumps(payload) ]

Kinds == {"contact", "company", "deal", "ticket", "comment", "user", "review"}

PackageName == "com.example.app"

\* the normalizer of each record kind (comments of ticket tid)
Normalize(kind, rawrec, tid, now) ==
    CASE kind = "contact" -> NormContact(rawrec)
      [] kind = "company" -> NormCompany(rawrec)
      [] kind = "deal"    -> NormDeal(rawrec)
      [] kind = "ticket"  -> NormTicket(rawrec)
      [] kind = "comment" -> NormComment(rawrec, tid)
      [] kind = "user"    -> NormUser(rawrec)
      [] kind = "review"  -> NormReview(rawrec, PackageName, now)

----------------------------------------------------------------------------
(* The vendor records the normalizers are applied to: every field present  *)
(* or absent, the field's value fixed by its name.                         *)

LifecycleStages == {"Lead", "customer", "LEAD", ""}

Sample(k) ==
    CASE k = "firstname" -> "Ann"
      [] k = "lastname"  -> "Lee"
      [] k = "public"    -> PyFalse
      [] OTHER           -> k \o "-value"

\* every dict over a subset of keys
Dicts(keys) == { [k \in D |-> Sample(k)] : D \in SUBSET keys }

NormIds == {"1"}
StarRatings == {1, 5}

\* a HubSpot object: {id, properties: {...}, createdAt, updatedAt, archived}
RawObjects(props) ==
    { [k \in D |-> IF k = "properties" THEN p ELSE IF k = "id" THEN i ELSE Sample(k)] :
        D \in SUBSET {"id", "properties", "createdAt", "updatedAt", "archived"},
        p \in props, i \in NormIds }

RawContactProps ==
    LET bases == Dicts((ContactProps \ {"lifecyclestage"}) \cup {"phone"})
    IN  bases \cup { Put(b, "lifecyclestage", st) : b \in bases, st \in LifecycleStages }

RawContacts  == RawObjects(RawContactProps)
RawCompanies == RawObjects(Dicts(CompanyProps \cup {"industry"}))
RawDeals     == RawObjects(Dicts(DealProps \cup {"pipeline"}))

RawTickets ==
    { [k \in D |-> IF k = "id" THEN i ELSE Sample(k)] :
        D \in SUBSET {"id", "subject", "status", "created_at", "updated_at", "priority"},
        i \in NormIds }

RawComments ==
    { [k \in D |-> IF k \in {"id", "author_id"} THEN i ELSE IF k = "public" THEN pub ELSE Sample(k)] :
        D \in SUBSET {"id", "author_id", "body", "created_at", "public", "via"},
        i \in NormIds, pub \in {PyTrue, PyFalse} }

\* the body of GET users/{id}.json: {user: {...}}
RawUsers ==
    { EmptyDict } \cup
    { [user |-> [k \in D |-> IF k = "id" THEN i ELSE Sample(k)]] :
        D \in SUBSET {"id", "name", "email", "role", "created_at", "updated_at", "phone"},
        i \in NormIds }

RawUserComments ==
    { [k \in D |-> IF k = "starRating" THEN r ELSE Sample(k)] :
        D \in SUBSET {"text", "starRating", "lastModified", "device"}, r \in StarRatings }

DeveloperComment == [developerComment |-> "thanks"]

\* a review: {reviewId, authorName, comments: [{userComment: {...}}, {developerComment: ...}]}
RawCommentLists ==
    { << >>, << EmptyDict >> } \cup
    { << [userComment |-> uc] >> : uc \in RawUserComments } \cup
    { << [userComment |-> uc], DeveloperComment >> : uc \in RawUserComments }

RawReviews ==
    { [k \in D |-> IF k = "comments" THEN cs ELSE IF k = "reviewId" THEN i ELSE Sample(k)] :
        D \in SUBSET {"reviewId", "authorName", "comments"},
        cs \in RawCommentLists, i \in NormIds }

RawRecords(kind) ==
    CASE kind = "contact" -> RawContacts
      [] kind = "company" -> RawCompanies
      [] kind = "deal"    -> RawDeals
      [] kind = "ticket"  -> RawTickets
      [] kind = "comment" -> RawComments
      [] kind = "user"    -> RawUsers
      [] kind = "review"  -> RawReviews

\* the leaf fields of a raw record, each as the path of keys leading to it
ObjectFields(o) ==
    { << k >> : k \in (DOMAIN o) \ {"properties"} } \cup
    (IF "properties" \in DOMAIN o
     THEN { << "properties", k >> : k \in DOMAIN o["properties"] } ELSE {})

ReviewFields(r) ==
    { << k >> : k \in (DOMAIN r) \ {"comments"} } \cup
    (IF "comments" \in DOMAIN r
     THEN UNION { { << "comments", i, k >> : k \in (DOMAIN r["comments"][i]) \ {"userComment"} }
                  \cup (IF "userComment" \in DOMAIN r["comments"][i]
                        THEN { << "comments", i, "userComment", k >> :
                                 k \in DOMAIN r["comments"][i]["userComment"] }
                        ELSE {})
                : i \in DOMAIN r["comments"] }
     ELSE {})

Fields(kind, rawrec) ==
    CASE kind \in {"contact", "company", "deal"} -> ObjectFields(rawrec)
      [] kind \in {"ticket", "comment"} -> { << k >> : k \in DOMAIN rawrec }
      [] kind = "user" ->
            IF "user" \in DOMAIN rawrec
            THEN { << "user", k >> : k \in DOMAIN rawrec["user"] } ELSE {}
      [] kind = "review" -> ReviewFields(rawrec)

RECURSIVE ValueAt(_, _)
ValueAt(v, path) ==
    IF Len(path) = 0 THEN v ELSE ValueAt(v[Head(path)], Tail(path))

RECURSIVE AlterAt(_, _, _)
AlterAt(v, path, alt) ==
    IF Len(path) = 1 THEN [v EXCEPT ![path[1]] = alt]
    ELSE [v EXCEPT ![path[1]] = AlterAt(v[path[1]], Tail(path), alt)]

\* another value of the same type for the field at the end of path
OtherValue(path, v) ==
    LET k == path[Len(path)]
    IN  CASE k = "public"     -> IF v = PyTrue THEN PyFalse ELSE PyTrue
          [] k = "starRating" -> IF v = 1 THEN 5 ELSE 1
          [] OTHER            -> v \o "~"

NormTid == "7"
Clock   == {"2024-01-01T00:00:00Z", "2024-01-02T00:00:00Z"}
Pending == [pending |-> TRUE]

InitNormVars ==
    /\ normKind \in Kinds
    /\ normRaw \in RawRecords(normKind)
    /\ normNow \in Clock
    /\ normOut = Pending

IdleNormVars ==
    /\ normKind = "none"
    /\ normRaw = EmptyDict
    /\ normNow = ""
    /\ normOut = Pending

\* one record goes through its normalizer
NormalizeRecord ==
    /\ normKind \in Kinds
    /\ normOut = Pending
    /\ normOut' = Normalize(normKind, normRaw, NormTid, normNow)
    /\ UNCHANGED <<normKind, normRaw, normNow>>

----------------------------------------------------------------------------
(* SQLite: tables are sets of rows; a transaction works on a copy *)

\* INSERT OR IGNORE: a row that agrees with row on the primary key stays
InsertOrIgnore(table, pk, row) ==
    IF \E r \in table : \A c \in pk : r[c] = row[c] THEN table ELSE table \cup { row }

\* INSERT OR REPLACE: the rows that agree with row on the primary key go
InsertOrReplace(table, pk, row) ==
    { r \in table : \E c \in pk : r[c] # row[c] } \cup { row }

\* a transaction in progress: the tables as written so far, and the exception
\* that ended the with-block, if any
Txn(tables) == [tables |-> tables, exc |-> "none"]
Failed(txn, e) == [txn EXCEPT !.exc = e]

\* leaving the with-block with every write kept (a connection in autocommit mode)
ConnExitAutocommit(before, txn) == txn.tables

\* with sqlite3.connect(...) as conn: leaving the block commits, or rolls
\* back when an exception leaves it
ConnExit(before, txn) == IF txn.exc = "none" THEN txn.tables ELSE before

----------------------------------------------------------------------------
(* storage/database.py: one table per vendor record kind *)

LegacyTables ==
    [ contacts         |-> {},
      hubspot_metadata |-> {},
      comments         |-> {},
      zendesk_metadata |-> {},
      old_comments     |-> {},     \* database.py: comments
      old_metadata     |-> << >> ] \* database.py: metadata, no primary key

MetaColumns == {"entity_type", "entity_id", "key", "value"}

\* Database.store_contacts: the metadata loop of one contact
RECURSIVE StoreContactMetas(_, _)
StoreContactMetas(txn, metas) ==
    IF txn.exc # "none" \/ metas = << >> THEN txn
    ELSE LET meta == Head(metas)
         IN  IF ~(MetaColumns \subseteq DOMAIN meta) THEN Failed(txn, "KeyError")
             ELSE StoreContactMetas(
                    [txn EXCEPT !.tables.hubspot_metadata =
                        InsertOrReplace(@, {"entity_type", "entity_id", "key"},
                            [ entity_type |-> meta["entity_type"],
                              entity_id   |-> meta["entity_id"],
                              key         |-> meta["key"],
                              value       |-> meta["value"] ])],
                    Tail(metas))

\* Database.store_contacts: the loop over the batch
RECURSIVE StoreContactRows(_, _)
StoreContactRows(txn, contacts) ==
    IF txn.exc # "none" \/ contacts = << >> THEN txn
    ELSE LET contact == Head(contacts)
             props   == Get(contact, "properties", EmptyDict)
         IN  IF "id" \notin DOMAIN contact THEN Failed(txn, "KeyError")
             ELSE StoreContactRows(
                    StoreContactMetas(
                        [txn EXCEPT !.tables.contacts =
                            InsertOrReplace(@, {"id"},
                                [ id         |-> contact["id"],
                                  firstname  |-> Get(props, "firstname", ""),
                                  lastname   |-> Get(props, "lastname", ""),
                                  email      |-> Get(props, "email", ""),
                                  created_at |-> Get(props, "createdate", "") ])],
                        Get(contact, "metadata", << >>)),
                    Tail(contacts))

\* Database.store_contacts
StoreContacts(tables, contacts) ==
    ConnExit(tables, StoreContactRows(Txn(tables), contacts))

CommentColumns == {"id", "ticket_id", "author_id", "body", "created_at", "public"}

\* the metadata keys whose value is a dict (isinstance(value, dict))
NestedMetaKeys == {"via"}
MetaKeyOrder   == << "channel", "via", "source" >>
KeysInOrder(d) == SelectSeq(MetaKeyOrder, LAMBDA k : k \in DOMAIN d)

\* the (key, value) rows one comment's metadata dict is flattened to
RECURSIVE FlattenMeta(_, _)
FlattenMeta(meta, keys) ==
    IF keys = << >> THEN << >>
    ELSE LET key == Head(keys)
             sub == KeysInOrder(meta[key])
         IN  (IF key \in NestedMetaKeys
              THEN [i \in 1..Len(sub) |-> << key \o "." \o sub[i], meta[key][sub[i]] >>]
              ELSE << << key, meta[key] >> >>)
             \o FlattenMeta(meta, Tail(keys))

CommentRow(comment) ==
    [ id         |-> comment["id"],
      ticket_id  |-> comment["ticket_id"],
      author_id  |-> comment["author_id"],
      body       |-> comment["body"],
      created_at |-> comment["created_at"],
      public     |-> comment["public"] ]

RECURSIVE StoreCommentMetas(_, _, _)
StoreCommentMetas(table, id, kvs) ==
    IF kvs = << >> THEN table
    ELSE StoreCommentMetas(
            InsertOrReplace(table, {"entity_type", "entity_id", "key"},
                [ entity_type |-> "comment", entity_id |-> id,
                  key |-> Head(kvs)[1], value |-> Head(kvs)[2] ]),
            id, Tail(kvs))

\* storage/database.py Database.store_comments: the loop over the batch
RECURSIVE StoreCommentRows(_, _)
StoreCommentRows(txn, comments) ==
    IF txn.exc # "none" \/ comments = << >> THEN txn
    ELSE LET comment == Head(comments)
             meta    == Get(comment, "metadata", EmptyDict)
         IN  IF ~(CommentColumns \subseteq DOMAIN comment) THEN Failed(txn, "KeyError")
             ELSE StoreCommentRows(
                    [txn EXCEPT
                        !.tables.comments = InsertOrReplace(@, {"id"}, CommentRow(comment)),
                        !.tables.zendesk_metadata =
                            StoreCommentMetas(@, comment["id"],
                                              FlattenMeta(meta, KeysInOrder(meta)))],
                    Tail(comments))

\* storage/database.py Database.store_comments
StoreComments(tables, comments) ==
    ConnExit(tables, StoreCommentRows(Txn(tables), comments))

\* database.py Database.store_comments: the loop over the batch; the comment
\* row is written before comment['metadata'] is read
RECURSIVE OldStoreCommentRows(_, _)
OldStoreCommentRows(txn, comments) ==
    IF txn.exc # "none" \/ comments = << >> THEN txn
    ELSE LET comment  == Head(comments)
             inserted == [txn EXCEPT !.tables.old_comments =
                              InsertOrReplace(@, {"id"}, CommentRow(comment))]
             kvs      == FlattenMeta(comment["metadata"], KeysInOrder(comment["metadata"]))
         IN  IF ~(CommentColumns \subseteq DOMAIN comment) THEN Failed(txn, "KeyError")
             ELSE IF "metadata" \notin DOMAIN comment THEN Failed(inserted, "KeyError")
             ELSE OldStoreCommentRows(
                    [inserted EXCEPT !.tables.old_metadata =
                        @ \o [i \in 1..Len(kvs) |->
                                [ comment_id |-> comment["id"],
                                  key |-> kvs[i][1], value |-> kvs[i][2] ]]],
                    Tail(comments))

\* database.py Database.store_comments
OldStoreComments(tables, comments) ==
    ConnExit(tables, OldStoreCommentRows(Txn(tables), comments))


----------------------------------------------------------------------------
(* The unified store that main() writes to: entities keyed by (id, source), *)
(* relationships under an AUTOINCREMENT id, interactions keyed by id.       *)

EmptyStore ==
    [ entities         |-> {},
      relationships    |-> {},
      relationship_seq |-> 0,
      interactions     |-> {} ]

EntityColumns ==
    {"id", "type", "name", "email", "status", "amount", "domain", "role",
     "created_at", "updated_at", "source", "json_payload"}

\* a store whose entities are keyed by the vendor id alone
EntityKeyIdOnly == {"id"}

EntityKey == {"id", "source"}

\* the row of an entity: the columns it does not carry are the empty string
EntityRow(entity) == [c \in EntityColumns |-> Get(entity, c, "")]

\* an upsert that keeps the stored value of every column the new record does not carry
MergeEntities(table, entity) ==
    LET old == { r \in table : \A c \in EntityKey : r[c] = entity[c] }
    IN  IF old = {} THEN table \cup { EntityRow(entity) }
        ELSE (table \ old) \cup
             { [c \in EntityColumns |-> IF c \in DOMAIN entity THEN entity[c] ELSE r[c]] :
                 r \in old }

\* INSERT OR REPLACE INTO entities
UpsertEntity(table, entity) == InsertOrReplace(table, EntityKey, EntityRow(entity))

RECURSIVE StoreEntityRows(_, _)
StoreEntityRows(txn, entities) ==
    IF txn.exc # "none" \/ entities = << >> THEN txn
    ELSE LET entity == Head(entities)
         IN  IF ~(EntityKey \subseteq DOMAIN entity) THEN Failed(txn, "KeyError")
             ELSE StoreEntityRows(
                    [txn EXCEPT !.tables.entities = UpsertEntity(@, entity)],
                    Tail(entities))

\* Database.store_entities
StoreEntities(tables, entities) ==
    ConnExit(tables, StoreEntityRows(Txn(tables), entities))

RelationshipColumns ==
    {"parent_type", "parent_id", "child_type", "child_id", "relationship_type", "json_payload"}

\* a store that gives every relationship the same id
ReusedRelationshipId(tables) == 1

\* id INTEGER PRIMARY KEY AUTOINCREMENT
NextRelationshipId(tables) == tables.relationship_seq + 1

RECURSIVE StoreRelationshipRows(_, _)
StoreRelationshipRows(txn, rels) ==
    IF txn.exc # "none" \/ rels = << >> THEN txn
    ELSE LET rel == Head(rels)
             id  == NextRelationshipId(txn.tables)
         IN  IF ~(RelationshipColumns \subseteq DOMAIN rel) THEN Failed(txn, "KeyError")
             ELSE StoreRelationshipRows(
                    [txn EXCEPT
                        !.tables.relationship_seq = id,
                        !.tables.relationships =
                            @ \cup { [c \in RelationshipColumns \cup {"id"} |->
                                        IF c = "id" THEN id ELSE rel[c]] }],
                    Tail(rels))

\* Database.store_relationships
StoreRelationships(tables, rels) ==
    ConnExit(tables, StoreRelationshipRows(Txn(tables), rels))

InteractionColumns ==
    {"id", "entity_type", "entity_id", "author_id", "body", "created_at",
     "is_public", "source", "json_payload"}

RECURSIVE StoreInteractionRows(_, _)
StoreInteractionRows(txn, interactions) ==
    IF txn.exc # "none" \/ interactions = << >> THEN txn
    ELSE LET it == Head(interactions)
         IN  IF ~(InteractionColumns \subseteq DOMAIN it) THEN Failed(txn, "KeyError")
             ELSE StoreInteractionRows(
                    [txn EXCEPT !.tables.interactions =
                        InsertOrReplace(@, {"id"}, [c \in InteractionColumns |-> it[c]])],
                    Tail(interactions))

\* Database.store_interactions
StoreInteractions(tables, interactions) ==
    ConnExit(tables, StoreInteractionRows(Txn(tables), interactions))

----------------------------------------------------------------------------
(* The store under test: a caller makes any sequence of calls of one method, *)
(* each with any batch of at most MaxBatch records.                          *)

MaxBatch == 2
MaxRows  == 3

Batches(records) == UNION { [1..n -> records] : n \in 0..MaxBatch }

StoreIds == {"1", "2"}
Sources  == {"hubspot", "zendesk"}

\* the keys the entities under test are stored under
StoreKeys == { << "1", "hubspot" >>, << "1", "zendesk" >>, << "2", "hubspot" >> }

EntitySamples ==
    { [ id |-> k[1], type |-> "contact", name |-> "Ann", email |-> "ann@example.com",
        source |-> k[2], json_payload |-> JsonDumps([phone |-> "555"]) ] : k \in StoreKeys } \cup
    { [ id |-> k[1], type |-> "user", name |-> "Bob", role |-> "agent",
        source |-> k[2], json_payload |-> JsonDumps(EmptyDict) ] : k \in StoreKeys } \cup
    { [ type |-> "contact", name |-> "Ann", source |-> "hubspot",
        json_payload |-> JsonDumps(EmptyDict) ] }

RelationshipSamples ==
    { [ parent_type |-> "contact", parent_id |-> i, child_type |-> "lead", child_id |-> i,
        relationship_type |-> "lead_status",
        json_payload |-> JsonDumps([lifecyclestage |-> "lead"]) ] : i \in StoreIds } \cup
    { [ parent_type |-> "contact", parent_id |-> "1" ] }

InteractionSamples ==
    { NormComment([id |-> "1", author_id |-> "9", body |-> b], "7") : b \in {"hello", "bye"} } \cup
    { NormComment([id |-> "2", author_id |-> "9", body |-> "hello"], "7"),
      [ id |-> "1", body |-> "hello" ] }

PhoneMeta(i) == [entity_type |-> "contact", entity_id |-> i, key |-> "phone", value |-> "555"]

LegacyContactSamples ==
    { [ id |-> "1", properties |-> [email |-> "ann@example.com"], metadata |-> << PhoneMeta("1") >> ],
      [ id |-> "1", properties |-> [email |-> "bob@example.com"] ],
      [ id |-> "2", properties |-> [email |-> "ann@example.com"], metadata |-> << >> ],
      [ id |-> "2", properties |-> [email |-> "ann@example.com"],
        metadata |-> << PhoneMeta("2"), Without(PhoneMeta("2"), {"value"}) >> ],
      [ properties |-> [email |-> "ann@example.com"] ] }

LegacyComment(i, b) ==
    [ id |-> i, ticket_id |-> "7", author_id |-> "9", body |-> b,
      created_at |-> "2024-01-01", public |-> PyTrue ]

LegacyCommentSamples ==
    { Put(LegacyComment("1", "hello"), "metadata", [channel |-> "web"]),
      Put(LegacyComment("2", "hello"), "metadata", [via |-> [source |-> "api"]]),
      LegacyComment("1", "bye"),
      Put(LegacyComment("1", "bye"), "metadata", EmptyDict),
      Without(LegacyComment("2", "hello"), {"public"}) }

StoreMethods ==
    {"store_entities", "store_relationships", "store_interactions",
     "store_contacts", "store_comments", "old_store_comments"}

NoCall == [method |-> "none"]

\* the record of a call: the exception it raised, and whether the transaction
\* had changed any table when the with-block was left
Called(method, before, txn) ==
    [ method |-> method, exc |-> txn.exc, wrote |-> txn.tables # before ]

\* the same, with the batch the call was given
CalledWith(method, before, txn, batch) ==
    [method |-> method, exc |-> txn.exc, wrote |-> txn.tables # before, batch |-> batch]

\* per key, the entity last upserted by a batch, and whether that upsert came
\* upon a different record stored under the same key
RECURSIVE LastUpserts(_, _)
LastUpserts(last, entities) ==
    IF entities = << >> THEN last
    ELSE LET entity == Head(entities)
             key    == << entity["id"], entity["source"] >>
         IN  LastUpserts(
                Put(last, key,
                    [ entity   |-> entity,
                      replaced |-> key \in DOMAIN last /\ last[key].entity # entity ]),
                Tail(entities))

InitStoreVars ==
    /\ db = EmptyStore
    /\ ldb = LegacyTables
    /\ storeTarget \in StoreMethods
    /\ storeCall = NoCall
    /\ upserted = << >>

IdleStoreVars ==
    /\ db = EmptyStore
    /\ ldb = LegacyTables
    /\ storeTarget = "none"
    /\ storeCall = NoCall
    /\ upserted = << >>

StoreEntitiesCall ==
    /\ storeTarget = "store_entities"
    /\ \E batch \in Batches(EntitySamples) :
          LET txn == StoreEntityRows(Txn(db), batch)
          IN  /\ db' = StoreEntities(db, batch)
              /\ storeCall' = Called("store_entities", db, txn)
              /\ upserted' = IF txn.exc = "none" THEN LastUpserts(upserted, batch)
                             ELSE upserted
    /\ UNCHANGED <<ldb, storeTarget>>

StoreRelationshipsCall ==
    /\ storeTarget = "store_relationships"
    /\ \E batch \in Batches(RelationshipSamples) :
          LET txn == StoreRelationshipRows(Txn(db), batch)
          IN  /\ Cardinality(db.relationships) + Len(batch) <= MaxRows
              /\ db' = StoreRelationships(db, batch)
              /\ storeCall' = CalledWith("store_relationships", db, txn, batch)
    /\ UNCHANGED <<ldb, storeTarget, upserted>>

StoreInteractionsCall ==
    /\ storeTarget = "store_interactions"
    /\ \E batch \in Batches(InteractionSamples) :
          LET txn == StoreInteractionRows(Txn(db), batch)
          IN  /\ db' = StoreInteractions(db, batch)
              /\ storeCall' = CalledWith("store_interactions", db, txn, batch)
    /\ UNCHANGED <<ldb, storeTarget, upserted>>

StoreContactsCall ==
    /\ storeTarget = "store_contacts"
    /\ \E batch \in Batches(LegacyContactSamples) :
          LET txn == StoreContactRows(Txn(ldb), batch)
          IN  /\ ldb' = StoreContacts(ldb, batch)
              /\ storeCall' = Called("store_contacts", ldb, txn)
    /\ UNCHANGED <<db, storeTarget, upserted>>

StoreCommentsCall ==
    /\ storeTarget = "store_comments"
    /\ \E batch \in Batches(LegacyCommentSamples) :
          LET txn == StoreCommentRows(Txn(ldb), batch)
          IN  /\ ldb' = StoreComments(ldb, batch)
              /\ storeCall' = CalledWith("store_comments", ldb, txn, batch)
    /\ UNCHANGED <<db, storeTarget, upserted>>

OldStoreCommentsCall ==
    /\ storeTarget = "old_store_comments"
    /\ \E batch \in Batches(LegacyCommentSamples) :
          LET txn == OldStoreCommentRows(Txn(ldb), batch)
          IN  /\ Len(ldb.old_metadata) + Len(batch) <= MaxRows
              /\ ldb' = OldStoreComments(ldb, batch)
              /\ storeCall' = CalledWith("old_store_comments", ldb, txn, batch)
    /\ UNCHANGED <<db, storeTarget, upserted>>

----------------------------------------------------------------------------
(* HTTP: a response is [status, headers, body]; status 0 stands for          *)
(* requests.get raising a RequestException instead of returning a response   *)

NoResponse == [status |-> 0, headers |-> EmptyDict, body |-> EmptyDict]

Running     == [running |-> TRUE]
Returned(v) == [value |-> v]
Consumed    == [consumed |-> TRUE]
HasReturned == DOMAIN ret = {"value"}
HasRaised   == IsExc(ret)

\* int(s) for the one-digit strings of the model
ParseInt(str) == CHOOSE n \in 0..9 : IntStr(n) = str

Max(a, b) == IF a >= b THEN a ELSE b

\* Python truth of a str or None
Truthy(v) == v # PyNone /\ v # ""

LowWaterMark             == 5
HubSpotDefaultRemaining  == 100
ZendeskDefaultRemaining  == 0
DefaultReset             == 0
MinSleep                 == 1

HubSpotRemainingHeader == "X-HubSpot-RateLimit-Remaining"
HubSpotResetHeader     == "X-HubSpot-RateLimit-Reset"
ZendeskRemainingHeader == "X-Rate-Limit-Remaining"
ZendeskResetHeader     == "X-Rate-Limit-Reset"

NewRateLimit(remaining, reset) ==
    [rate_limit_remaining |-> remaining, rate_limit_reset |-> reset]

\* HubSpotClient._handle_rate_limit: the two assignments
HubSpotRateLimit(r) ==
    NewRateLimit(
        IF HubSpotRemainingHeader \in DOMAIN r.headers
        THEN ParseInt(r.headers[HubSpotRemainingHeader]) ELSE HubSpotDefaultRemaining,
        IF HubSpotResetHeader \in DOMAIN r.headers
        THEN ParseInt(r.headers[HubSpotResetHeader]) ELSE DefaultReset)

\* ZendeskClient._handle_rate_limit: the two assignments
ZendeskRateLimit(r) ==
    NewRateLimit(
        IF ZendeskRemainingHeader \in DOMAIN r.headers
        THEN ParseInt(r.headers[ZendeskRemainingHeader]) ELSE ZendeskDefaultRemaining,
        IF ZendeskResetHeader \in DOMAIN r.headers
        THEN ParseInt(r.headers[ZendeskResetHeader]) ELSE DefaultReset)

\* a client that sleeps only below the low-water mark
RateLimitLowStrict(limit) == limit.rate_limit_remaining < LowWaterMark

\* if self.rate_limit_remaining <= 5
RateLimitLow(limit) == limit.rate_limit_remaining <= LowWaterMark

\* sleep_time = max(self.rate_limit_reset - int(time.time()), 1)
SleepTime(limit, now) == Max(limit.rate_limit_reset - now, MinSleep)

\* response.raise_for_status()
IsHttpError(r) == r.status >= 400

----------------------------------------------------------------------------
(* str.split, as next_page.split("page=")[1].split("&")[0] uses it *)

\* the position of the first occurrence of sep in str at or after i, 0 if none
RECURSIVE Find(_, _, _)
Find(str, sep, i) ==
    IF i + Len(sep) - 1 > Len(str) THEN 0
    ELSE IF SubSeq(str, i, i + Len(sep) - 1) = sep THEN i
    ELSE Find(str, sep, i + 1)

Contains(str, sep) == Find(str, sep, 1) > 0

\* str.split(sep)[0]
SplitFirst(str, sep) ==
    IF Contains(str, sep) THEN SubSeq(str, 1, Find(str, sep, 1) - 1) ELSE str

\* what follows the first sep
AfterSep(str, sep) == SubSeq(str, Find(str, sep, 1) + Len(sep), Len(str))

\* str.split(sep)[1], for a str that holds sep
SplitSecond(str, sep) == SplitFirst(AfterSep(str, sep), sep)

\* data.get("next_page").split("page=")[1].split("&")[0]
PageOf(next_page) == SplitFirst(SplitSecond(next_page, "page="), "&")


----------------------------------------------------------------------------
(* The vendors: what each endpoint may answer.  A fetch is answered from a   *)
(* finite listing of at most MaxPages pages; the answers of scope "client"   *)
(* vary the page contents, markers and headers, those of scope "run" serve   *)
(* at most one record per page, the record of page n carrying the id n.      *)

MaxPages == 2

Scopes == {"client", "run"}

\* the ids on a page: none, one, or two in descending order
PageIds == { << >>, << "1" >>, << "2" >>, << "3", "2" >> }
Authors   == {"1", "2"}
Times     == {3, 12}

VendorStage(id) ==
    CASE id = "1" -> "Lead"
      [] id = "2" -> "customer"
      [] OTHER    -> "LEAD"

VendorComment(id, author) ==
    [id |-> id, author_id |-> author, body |-> "hello", via |-> "web"]

VendorRecord(kind, id) ==
    CASE kind = "contact" ->
            [id |-> id, archived |-> PyFalse,
             properties |-> [firstname |-> "Ann", email |-> "ann@example.com",
                             lifecyclestage |-> VendorStage(id), phone |-> "555"]]
      [] kind = "company" ->
            [id |-> id, properties |-> [name |-> "Acme", industry |-> "tools"]]
      [] kind = "deal" ->
            [id |-> id, properties |-> [dealname |-> "Big", amount |-> "10", pipeline |-> "default"]]
      [] kind = "ticket" ->
            [id |-> id, subject |-> "Help", status |-> "open", priority |-> "high"]
      [] kind = "user" ->
            [user |-> [id |-> id, name |-> "Sam", role |-> "end-user", phone |-> "555"]]
      [] kind = "review" ->
            [reviewId |-> id, authorName |-> "Kim",
             comments |-> << [userComment |-> [text |-> "ok", starRating |-> 5, device |-> "px"]] >>]

\* the record lists a page n may carry
PageResults(scope, kind, n) ==
    IF scope = "run"
    THEN { << >>, << VendorRecord(kind, IntStr(n)) >> }
    ELSE { [i \in DOMAIN ids |-> VendorRecord(kind, ids[i])] : ids \in PageIds }

\* HubSpot list body: {results: [...], paging: {next: {after: ...}}}
HubSpotBodies(scope, kind, n) ==
    LET last  == { [results |-> rs] : rs \in PageResults(scope, kind, n) }
        more  == { [results |-> rs, paging |-> [next |-> [after |-> IntStr(n + 1)]]] :
                     rs \in PageResults(scope, kind, n) }
        odd   == { EmptyDict, [results |-> << >>, paging |-> [prev |-> [before |-> IntStr(n)]]] }
        empty == { [results |-> rs, paging |-> [next |-> [after |-> ""]]] :
                     rs \in PageResults(scope, kind, n) }
    IN  last \cup (IF n < MaxPages THEN more ELSE {})
             \cup (IF scope = "client" THEN odd ELSE {})
             \cup (IF scope = "client" /\ n < MaxPages THEN empty ELSE {})

ZendeskSearchUrl == "https://acme.zendesk.com/api/v2/search.json"

\* the next_page URLs Zendesk may give for page n
NextPageUrls(scope, n) ==
    { ZendeskSearchUrl \o "?page=" \o IntStr(n) \o "&query=type%3Aticket" } \cup
    (IF scope = "client"
     THEN { ZendeskSearchUrl \o "?query=type%3Aticket&page=" \o IntStr(n) } ELSE {})

\* Zendesk search body: {results: [...], next_page: url or null}
ZendeskSearchBodies(scope, n) ==
    LET last == { [results |-> rs, next_page |-> PyNone] : rs \in PageResults(scope, "ticket", n) }
        more == { [results |-> rs, next_page |-> u] :
                     rs \in PageResults(scope, "ticket", n), u \in NextPageUrls(scope, n + 1) }
        odd  == { EmptyDict }
    IN  last \cup (IF n < MaxPages THEN more ELSE {})
             \cup (IF scope = "client" THEN odd ELSE {})

\* the comment lists of one ticket
RunCommentAuthors == { << >>, << "1" >>, << "2" >>, << "1", "2" >> }

CommentLists(scope, ticket_id) ==
    IF scope = "run"
    THEN { [i \in DOMAIN as |-> VendorComment(ticket_id \o "-" \o IntStr(i), as[i])] :
             as \in RunCommentAuthors }
    ELSE { [i \in DOMAIN ids |-> VendorComment(ids[i], a)] : ids \in PageIds, a \in Authors }

\* Zendesk comments body: {comments: [...]}
ZendeskCommentBodies(scope, ticket_id) ==
    { [comments |-> cs] : cs \in CommentLists(scope, ticket_id) } \cup
    (IF scope = "client" THEN { EmptyDict } ELSE {})

\* Zendesk user body: {user: {...}}
ZendeskUserBodies(scope, user_id) ==
    { VendorRecord("user", user_id) } \cup
    (IF scope = "client" THEN { EmptyDict } ELSE {})

\* Google Play reviews body: {reviews: [...], tokenPagination: {nextPageToken: ...}}
GooglePlayBodies(n) ==
    LET last  == { [reviews |-> rs] : rs \in PageResults("client", "review", n) }
        more  == { [reviews |-> rs, tokenPagination |-> [nextPageToken |-> "page" \o IntStr(n + 1)]] :
                     rs \in PageResults("client", "review", n) }
        odd   == { EmptyDict, [reviews |-> << >>, tokenPagination |-> [nextPageToken |-> ""]] }
    IN  last \cup odd \cup (IF n < MaxPages THEN more ELSE {})

\* Google token body: {access_token: ...}
AccessTokens == {"token-a", "token-b"}
TokenBodies  == { [access_token |-> t] : t \in AccessTokens } \cup
                { EmptyDict, [access_token |-> ""] }

HubSpotHeaders(scope) ==
    { EmptyDict } \cup
    (IF scope = "client"
     THEN { (HubSpotRemainingHeader :> "5"),
            (HubSpotRemainingHeader :> "5") @@ (HubSpotResetHeader :> "9"),
            (HubSpotRemainingHeader :> "6") @@ (HubSpotResetHeader :> "9") }
     ELSE {})

ZendeskHeaders(scope) ==
    { EmptyDict, (ZendeskRemainingHeader :> "6") @@ (ZendeskResetHeader :> "9") } \cup
    (IF scope = "client"
     THEN { (ZendeskRemainingHeader :> "5"),
            (ZendeskRemainingHeader :> "5") @@ (ZendeskResetHeader :> "9") }
     ELSE {})

\* the answers to a request: a 200 with a body, an error status, or no response
Answers(headers, bodies, errors) ==
    { [status |-> 200, headers |-> h, body |-> b] : h \in headers, b \in bodies } \cup
    { [status |-> e, headers |-> h, body |-> EmptyDict] : h \in headers, e \in errors } \cup
    { NoResponse }

HttpErrors(scope) == IF scope = "client" THEN {401, 500} ELSE {500}


----------------------------------------------------------------------------
(* The clients.  One action is one HTTP exchange together with the code that *)
(* runs up to the next exchange, the next time.sleep or the method's return. *)

TokenEndpoint == "https://accounts.google.com/o/oauth2/token"

\* one exchange of the log: the request sent, the status of the answer, and
\* the access token the token endpoint answered with
Exchange(endpoint, params, auth, r) ==
    [ endpoint |-> endpoint, params |-> params, auth |-> auth, status |-> r.status,
      token |-> IF endpoint = TokenEndpoint THEN Get(r.body, "access_token", PyNone)
                ELSE PyNone ]

\* the caller enters a client method
Enter(method, arg) ==
    /\ call' = method
    /\ callArg' = arg
    /\ acc' = << >>
    /\ cursor' = PyNone
    /\ ret' = Running
    /\ reqs' = << >>
    /\ pages' = << >>

\* a list that keeps only the records of the page at hand
ExtendReset(list, records) == records

\* the appends of one page
Extend(list, records) == list \o records

\* the first exception among the normalized records, if any
Failures(records) == { i \in DOMAIN records : IsExc(records[i]) }
FirstFailure(records) ==
    records[CHOOSE i \in Failures(records) : \A j \in Failures(records) : i <= j]

\* a truthy dict under key k
HasDict(d, k) == k \in DOMAIN d /\ DOMAIN d[k] # {}

HubSpotMethods == {"fetch_contacts", "fetch_companies", "fetch_deals", "fetch_leads"}

HubSpotKind(method) ==
    CASE method = "fetch_companies" -> "company"
      [] method = "fetch_deals"     -> "deal"
      [] OTHER                      -> "contact"

HubSpotProps(kind) ==
    CASE kind = "contact" -> ContactProps
      [] kind = "company" -> CompanyProps
      [] kind = "deal"    -> DealProps

HubSpotEndpoint(kind) ==
    CASE kind = "contact" -> "objects/contacts"
      [] kind = "company" -> "objects/companies"
      [] kind = "deal"    -> "objects/deals"

\* params = {"limit": 100, "properties": [...]}; if after: params["after"] = after
HubSpotParams(kind, after) ==
    IF Truthy(after)
    THEN [limit |-> 100, properties |-> HubSpotProps(kind), after |-> after]
    ELSE [limit |-> 100, properties |-> HubSpotProps(kind)]

\* a filter that takes every contact for a lead
IsLeadAlways(contact) == TRUE

\* fetch_leads: the condition of the comprehension
IsLead(contact) ==
    Lower(Get(Get(JsonLoads(contact["json_payload"]), "properties", EmptyDict),
              "lifecyclestage", "")) = "lead"

\* fetch_leads: the element of the comprehension; contact["json_payload"] is a
\* str, which has no attribute get
LeadOf(contact) == Raise("AttributeError")

\* fetch_leads, after fetch_contacts has returned
LeadsOf(contacts) ==
    LET chosen == SelectSeq(contacts, IsLead)
        leads  == [i \in DOMAIN chosen |-> LeadOf(chosen[i])]
    IN  IF Failures(leads) # {} THEN FirstFailure(leads) ELSE Returned(leads)

HubSpotReturn(records) ==
    IF call = "fetch_leads" THEN LeadsOf(records) ELSE Returned(records)

\* the loop iteration of fetch_contacts / fetch_companies / fetch_deals on data
HubSpotPage(data) ==
    LET results == Get(data, "results", << >>)
        records == [i \in DOMAIN results |-> Normalize(HubSpotKind(call), results[i], "", "")]
        list    == Extend(acc, records)
    IN  /\ pages' = Append(pages, data)
        /\ IF Failures(records) # {}
           THEN ret' = FirstFailure(records) /\ UNCHANGED <<acc, cursor>>
           ELSE /\ acc' = list
                /\ IF HasDict(data, "paging") /\ HasDict(data["paging"], "next")
                   THEN cursor' = data["paging"]["next"]["after"] /\ ret' = Running
                   ELSE cursor' = cursor /\ ret' = HubSpotReturn(list)

\* HubSpotClient._make_request after _handle_rate_limit
HubSpotResume(r) ==
    IF IsHttpError(r)
    THEN ret' = Raise("HTTPError") /\ UNCHANGED <<acc, cursor, pages>>
    ELSE HubSpotPage(r.body)

\* HubSpotClient._make_request up to the end of _handle_rate_limit
HubSpotRequest(scope) ==
    /\ call \in HubSpotMethods
    /\ ret = Running
    /\ sleeping = 0
    /\ \E r \in Answers(HubSpotHeaders(scope),
                        HubSpotBodies(scope, HubSpotKind(call), Len(pages) + 1),
                        HttpErrors(scope)) :
        /\ reqs' = Append(reqs, Exchange(HubSpotEndpoint(HubSpotKind(call)),
                                         HubSpotParams(HubSpotKind(call), cursor), "api-key", r))
        /\ resp' = r
        /\ IF r.status = 0
           THEN /\ ret' = Raise("RequestException")
                /\ UNCHANGED <<hubspot, sleeping, acc, cursor, pages>>
           ELSE /\ hubspot' = HubSpotRateLimit(r)
                /\ IF RateLimitLow(HubSpotRateLimit(r))
                   THEN /\ \E now \in Times : sleeping' = SleepTime(HubSpotRateLimit(r), now)
                        /\ UNCHANGED <<acc, cursor, ret, pages>>
                   ELSE /\ sleeping' = 0
                        /\ HubSpotResume(r)
    /\ UNCHANGED <<call, callArg, zendesk, gplay>>

ZendeskMethods == {"fetch_tickets", "fetch_comments", "fetch_user"}

ZendeskEndpoint(method, arg) ==
    CASE method = "fetch_tickets"  -> "search.json"
      [] method = "fetch_comments" -> "tickets/" \o arg \o "/comments.json"
      [] method = "fetch_user"     -> "users/" \o arg \o ".json"

\* params = {"query": query}, params["page"] once a next page is known
ZendeskParams(method, query, page) ==
    IF method # "fetch_tickets" THEN EmptyDict
    ELSE IF page = PyNone THEN [query |-> query]
    ELSE [query |-> query, page |-> page]

ZendeskBodies(scope, method, arg, n) ==
    CASE method = "fetch_tickets"  -> ZendeskSearchBodies(scope, n)
      [] method = "fetch_comments" -> ZendeskCommentBodies(scope, arg)
      [] method = "fetch_user"     -> ZendeskUserBodies(scope, arg)

\* the loop iteration of fetch_tickets on data
ZendeskPage(data) ==
    LET results   == Get(data, "results", << >>)
        records   == [i \in DOMAIN results |-> Normalize("ticket", results[i], "", "")]
        list      == Extend(acc, records)
        next_page == Get(data, "next_page", PyNone)
    IN  /\ pages' = Append(pages, data)
        /\ IF Failures(records) # {}
           THEN ret' = FirstFailure(records) /\ UNCHANGED <<acc, cursor>>
           ELSE /\ acc' = list
                /\ IF ~Truthy(next_page)
                   THEN cursor' = cursor /\ ret' = Returned(list)
                   ELSE IF ~Contains(next_page, "page=")
                   THEN cursor' = cursor /\ ret' = IndexError
                   ELSE cursor' = PageOf(next_page) /\ ret' = Running

\* fetch_comments on data
ZendeskComments(data) ==
    LET comments == Get(data, "comments", << >>)
        records  == [i \in DOMAIN comments |-> Normalize("comment", comments[i], callArg, "")]
    IN  /\ pages' = Append(pages, data)
        /\ cursor' = cursor
        /\ IF Failures(records) # {}
           THEN ret' = FirstFailure(records) /\ acc' = acc
           ELSE ret' = Returned(records) /\ acc' = records

\* fetch_user on data
ZendeskUser(data) ==
    /\ pages' = Append(pages, data)
    /\ ret' = Returned(Normalize("user", data, "", ""))
    /\ UNCHANGED <<acc, cursor>>

\* ZendeskClient._make_request after _handle_rate_limit
ZendeskResume(r) ==
    IF IsHttpError(r)
    THEN ret' = Raise("HTTPError") /\ UNCHANGED <<acc, cursor, pages>>
    ELSE CASE call = "fetch_tickets"  -> ZendeskPage(r.body)
           [] call = "fetch_comments" -> ZendeskComments(r.body)
           [] call = "fetch_user"     -> ZendeskUser(r.body)

\* ZendeskClient._make_request up to the end of _handle_rate_limit
ZendeskRequest(scope) ==
    /\ call \in ZendeskMethods
    /\ ret = Running
    /\ sleeping = 0
    /\ \E r \in Answers(ZendeskHeaders(scope),
                        ZendeskBodies(scope, call, callArg, Len(pages) + 1),
                        HttpErrors(scope)) :
        /\ reqs' = Append(reqs, Exchange(ZendeskEndpoint(call, callArg),
                                         ZendeskParams(call, callArg, cursor), "api-token", r))
        /\ resp' = r
        /\ IF r.status = 0
           THEN /\ ret' = Raise("RequestException")
                /\ UNCHANGED <<zendesk, sleeping, acc, cursor, pages>>
           ELSE /\ zendesk' = ZendeskRateLimit(r)
                /\ IF RateLimitLow(ZendeskRateLimit(r))
                   THEN /\ \E now \in Times : sleeping' = SleepTime(ZendeskRateLimit(r), now)
                        /\ UNCHANGED <<acc, cursor, ret, pages>>
                   ELSE /\ sleeping' = 0
                        /\ ZendeskResume(r)
    /\ UNCHANGED <<call, callArg, hubspot, gplay>>

\* time.sleep returns: _handle_rate_limit ends and _make_request goes on with
\* the response it holds
WakeUp ==
    /\ sleeping > 0
    /\ sleeping' = 0
    /\ IF call \in HubSpotMethods THEN HubSpotResume(resp) ELSE ZendeskResume(resp)
    /\ UNCHANGED <<call, callArg, hubspot, zendesk, gplay, reqs, resp>>


GooglePlayMethods == {"__init__", "fetch_reviews"}

NewGooglePlay == [access_token |-> PyNone, authorization |-> PyNone, step |-> "get"]

Bearer(token) == "Bearer " \o token

\* a refresh that takes any 200 answer of the token endpoint
RefreshFailureLenient(r) ==
    IF r.status = 0 THEN Raise("RequestException")
    ELSE IF IsHttpError(r) THEN Raise("HTTPError")
    ELSE Raise("none")

\* _refresh_access_token on the answer r of the token endpoint: the exception
\* it raises, or none
RefreshFailure(r) ==
    IF r.status = 0 THEN Raise("RequestException")
    ELSE IF IsHttpError(r) THEN Raise("HTTPError")
    ELSE IF ~Truthy(Get(r.body, "access_token", PyNone)) THEN Raise("ValueError")
    ELSE Raise("none")

\* self.access_token after _refresh_access_token on the answer r
RefreshedToken(r) ==
    IF r.status = 0 \/ IsHttpError(r) THEN gplay.access_token
    ELSE Get(r.body, "access_token", PyNone)

\* a client that refreshes the token on any error status
NeedsRefreshOnError(r) == IsHttpError(r)

\* if response.status_code == 401
NeedsRefresh(r) == r.status = 401

\* GooglePlayClient.__init__: _refresh_access_token, then the headers
GooglePlayInit ==
    /\ call = "__init__"
    /\ ret = Running
    /\ \E r \in Answers({EmptyDict}, TokenBodies, {400}) :
        /\ reqs' = Append(reqs, Exchange(TokenEndpoint, EmptyDict, PyNone, r))
        /\ IF RefreshFailure(r) = Raise("none")
           THEN /\ gplay' = [gplay EXCEPT !.access_token = RefreshedToken(r),
                                          !.authorization = Bearer(RefreshedToken(r))]
                /\ ret' = Returned(PyNone)
           ELSE /\ gplay' = [gplay EXCEPT !.access_token = RefreshedToken(r)]
                /\ ret' = RefreshFailure(r)
    /\ UNCHANGED <<call, callArg, acc, cursor, hubspot, zendesk, sleeping, resp, pages>>

\* the owner of a constructed client calls fetch_reviews
CallFetchReviews ==
    /\ call = "__init__"
    /\ HasReturned
    /\ Enter("fetch_reviews", PyNone)
    /\ UNCHANGED <<hubspot, zendesk, gplay, sleeping, resp>>

\* params = {"token": token} if token else {}
GooglePlayParams(token) == IF Truthy(token) THEN [token |-> token] ELSE EmptyDict

\* the loop iteration of fetch_reviews on data
GooglePlayPage(data) ==
    \E now \in Clock :
        LET reviews == Get(data, "reviews", << >>)
            records == [i \in DOMAIN reviews |-> Normalize("review", reviews[i], "", now)]
            list    == Extend(acc, records)
            token   == Get(Get(data, "tokenPagination", EmptyDict), "nextPageToken", PyNone)
        IN  /\ pages' = Append(pages, data)
            /\ IF Failures(records) # {}
               THEN ret' = FirstFailure(records) /\ UNCHANGED <<acc, cursor>>
               ELSE /\ acc' = list
                    /\ cursor' = token
                    /\ ret' = IF Truthy(token) THEN Running ELSE Returned(list)

\* GooglePlayClient._make_request from response.raise_for_status() on
GooglePlayResume(r) ==
    IF IsHttpError(r)
    THEN ret' = Raise("HTTPError") /\ UNCHANGED <<acc, cursor, pages>>
    ELSE GooglePlayPage(r.body)

\* GooglePlayClient._make_request: the first requests.get
GooglePlayRequest ==
    /\ call = "fetch_reviews"
    /\ ret = Running
    /\ gplay.step = "get"
    /\ \E r \in Answers({EmptyDict}, GooglePlayBodies(Len(pages) + 1), {401, 500}) :
        /\ reqs' = Append(reqs, Exchange("reviews", GooglePlayParams(cursor), gplay.authorization, r))
        /\ IF r.status = 0
           THEN ret' = Raise("RequestException") /\ UNCHANGED <<gplay, acc, cursor, pages>>
           ELSE IF NeedsRefresh(r)
           THEN gplay' = [gplay EXCEPT !.step = "refresh"] /\ UNCHANGED <<ret, acc, cursor, pages>>
           ELSE gplay' = gplay /\ GooglePlayResume(r)
    /\ UNCHANGED <<call, callArg, hubspot, zendesk, sleeping, resp>>

\* GooglePlayClient._make_request: _refresh_access_token after a 401, then
\* self.headers["Authorization"]
GooglePlayRefresh ==
    /\ call = "fetch_reviews"
    /\ ret = Running
    /\ gplay.step = "refresh"
    /\ \E r \in Answers({EmptyDict}, TokenBodies, {400}) :
        /\ reqs' = Append(reqs, Exchange(TokenEndpoint, EmptyDict, PyNone, r))
        /\ IF RefreshFailure(r) = Raise("none")
           THEN /\ gplay' = [access_token |-> RefreshedToken(r),
                             authorization |-> Bearer(RefreshedToken(r)),
                             step |-> "retry"]
                /\ ret' = ret
           ELSE /\ gplay' = [gplay EXCEPT !.access_token = RefreshedToken(r), !.step = "get"]
                /\ ret' = RefreshFailure(r)
    /\ UNCHANGED <<call, callArg, acc, cursor, hubspot, zendesk, sleeping, resp, pages>>

\* GooglePlayClient._make_request: the second requests.get
GooglePlayRetry ==
    /\ call = "fetch_reviews"
    /\ ret = Running
    /\ gplay.step = "retry"
    /\ \E r \in Answers({EmptyDict}, GooglePlayBodies(Len(pages) + 1), {401, 500}) :
        /\ reqs' = Append(reqs, Exchange("reviews", GooglePlayParams(cursor), gplay.authorization, r))
        /\ gplay' = [gplay EXCEPT !.step = "get"]
        /\ IF r.status = 0
           THEN ret' = Raise("RequestException") /\ UNCHANGED <<acc, cursor, pages>>
           ELSE GooglePlayResume(r)
    /\ UNCHANGED <<call, callArg, hubspot, zendesk, sleeping, resp>>

\* the client methods under test, each with its argument
ClientCalls ==
    { << m, PyNone >> : m \in HubSpotMethods \cup {"__init__"} } \cup
    { << "fetch_tickets", "type:ticket" >>, << "fetch_comments", "7" >>, << "fetch_user", "1" >> }

\* __init__ of either client: rate_limit_remaining = 100, rate_limit_reset = 0
InitialRemaining == 100
NewClientRateLimit == NewRateLimit(InitialRemaining, DefaultReset)

InitClientVars ==
    /\ \E c \in ClientCalls : call = c[1] /\ callArg = c[2]
    /\ acc = << >>
    /\ cursor = PyNone
    /\ ret = Running
    /\ hubspot = NewClientRateLimit
    /\ zendesk = NewClientRateLimit
    /\ gplay = NewGooglePlay
    /\ sleeping = 0
    /\ resp = NoResponse
    /\ reqs = << >>
    /\ pages = << >>

IdleClientVars ==
    /\ call = "none"
    /\ callArg = PyNone
    /\ acc = << >>
    /\ cursor = PyNone
    /\ ret = Returned(PyNone)
    /\ hubspot = NewClientRateLimit
    /\ zendesk = NewClientRateLimit
    /\ gplay = NewGooglePlay
    /\ sleeping = 0
    /\ resp = NoResponse
    /\ reqs = << >>
    /\ pages = << >>

----------------------------------------------------------------------------
(* main(): the sync run.  A stage action takes the result of the client     *)
(* method that has returned, makes the store call and enters the next       *)
(* client method.                                                           *)

TicketQuery == "type:ticket status:open"

Event(op, arg) == [op |-> op, arg |-> arg]

\* what may go wrong inside SQLite during a store call of the run
StoreFaults == {"none", "OperationalError"}

\* the transaction of a store call during which SQLite raises `fault`
Faulty(txn, fault) ==
    IF fault = "none" \/ txn.exc # "none" THEN txn ELSE Failed(txn, fault)

\* an except block that logs the error and returns
Swallowed(stage) == "done"

\* except Exception as e: logger.error(...); raise
Reraised(stage) == "raised"

\* main() holds no client call
Leave ==
    /\ call' = "none"
    /\ callArg' = PyNone
    /\ acc' = << >>
    /\ cursor' = PyNone
    /\ ret' = Consumed
    /\ reqs' = << >>
    /\ pages' = << >>

\* unique_users taking only the authors of the ticket at hand
ReplaceUsers(user_set, comments) ==
    { comments[i]["author_id"] : i \in DOMAIN comments }

\* user_ids = {comment['author_id'] for comment in comments}; unique_users.update(user_ids)
UpdateUsers(user_set, comments) ==
    user_set \cup { comments[i]["author_id"] : i \in DOMAIN comments }

\* a store call of main() on the result of `method`, then the call of `next`
StoreThenFetch(method, op, exc, tables, nextpc, next, arg) ==
    /\ call = method
    /\ HasReturned
    /\ db' = tables
    /\ IF exc # "none"
       THEN /\ pc' = Reraised(pc)
            /\ trace' = Append(trace, Event(op, method))
            /\ Leave
       ELSE /\ pc' = nextpc
            /\ trace' = trace \o << Event(op, method), Event(next, arg) >>
            /\ Enter(next, arg)
    /\ UNCHANGED <<hubspot, zendesk, gplay, sleeping, resp>>

\* main.py 36: db.store_entities(contacts), 39: hubspot.fetch_companies()
StoreContactsStage ==
    /\ pc = "contacts"
    /\ \E fault \in StoreFaults :
        StoreThenFetch("fetch_contacts", "store_entities",
                      Faulty(StoreEntityRows(Txn(db), ret.value), fault).exc,
                      ConnExit(db, Faulty(StoreEntityRows(Txn(db), ret.value), fault)),
                      "companies", "fetch_companies", PyNone)
    /\ UNCHANGED <<tickets, tix, unique_users, todo, users, served>>

\* main.py 41: db.store_entities(companies), 44: hubspot.fetch_leads()
StoreCompaniesStage ==
    /\ pc = "companies"
    /\ \E fault \in StoreFaults :
        StoreThenFetch("fetch_companies", "store_entities",
                      Faulty(StoreEntityRows(Txn(db), ret.value), fault).exc,
                      ConnExit(db, Faulty(StoreEntityRows(Txn(db), ret.value), fault)),
                      "leads", "fetch_leads", PyNone)
    /\ UNCHANGED <<tickets, tix, unique_users, todo, users, served>>

\* main.py 46: db.store_relationships(leads), 49: hubspot.fetch_deals()
StoreLeadsStage ==
    /\ pc = "leads"
    /\ \E fault \in StoreFaults :
        StoreThenFetch("fetch_leads", "store_relationships",
                      Faulty(StoreRelationshipRows(Txn(db), ret.value), fault).exc,
                      ConnExit(db, Faulty(StoreRelationshipRows(Txn(db), ret.value), fault)),
                      "deals", "fetch_deals", PyNone)
    /\ UNCHANGED <<tickets, tix, unique_users, todo, users, served>>

\* main.py 51: db.store_entities(deals), 54-62: ZendeskClient(...), zendesk.fetch_tickets(...)
StoreDealsStage ==
    /\ pc = "deals"
    /\ \E fault \in StoreFaults :
        StoreThenFetch("fetch_deals", "store_entities",
                      Faulty(StoreEntityRows(Txn(db), ret.value), fault).exc,
                      ConnExit(db, Faulty(StoreEntityRows(Txn(db), ret.value), fault)),
                      "tickets", "fetch_tickets", TicketQuery)
    /\ UNCHANGED <<tickets, tix, unique_users, todo, users, served>>

\* main.py 64: db.store_entities(tickets), 67: unique_users = set()
StoreTicketsStage ==
    /\ pc = "tickets"
    /\ call = "fetch_tickets"
    /\ HasReturned
    /\ \E fault \in StoreFaults :
        LET txn == Faulty(StoreEntityRows(Txn(db), ret.value), fault)
        IN  /\ db' = ConnExit(db, txn)
            /\ pc' = IF txn.exc # "none" THEN Reraised(pc) ELSE "comments"
    /\ trace' = Append(trace, Event("store_entities", "fetch_tickets"))
    /\ tickets' = ret.value
    /\ tix' = 0
    /\ unique_users' = {}
    /\ Leave
    /\ UNCHANGED <<hubspot, zendesk, gplay, sleeping, resp, todo, users, served>>

\* main.py 68-69: for ticket in tickets: zendesk.fetch_comments(ticket['id'])
NextTicket ==
    /\ pc = "comments"
    /\ call = "none"
    /\ tix < Len(tickets)
    /\ tix' = tix + 1
    /\ Enter("fetch_comments", tickets[tix + 1]["id"])
    /\ trace' = Append(trace, Event("fetch_comments", tickets[tix + 1]["id"]))
    /\ UNCHANGED <<db, hubspot, zendesk, gplay, sleeping, resp, pc, tickets, unique_users, todo, users, served>>

\* main.py 71-73: db.store_interactions(comments); unique_users.update(user_ids)
StoreCommentsStage ==
    /\ pc = "comments"
    /\ call = "fetch_comments"
    /\ HasReturned
    /\ trace' = Append(trace, Event("store_interactions", callArg))
    /\ served' = Append(served, { c["author_id"] : c \in
                                    { Get(pages[1], "comments", << >>)[i] :
                                        i \in DOMAIN Get(pages[1], "comments", << >>) } })
    /\ \E fault \in StoreFaults :
        LET txn == Faulty(StoreInteractionRows(Txn(db), ret.value), fault)
        IN  /\ db' = ConnExit(db, txn)
            /\ IF txn.exc # "none"
               THEN pc' = Reraised(pc) /\ unique_users' = unique_users
               ELSE pc' = pc /\ unique_users' = UpdateUsers(unique_users, ret.value)
    /\ Leave
    /\ UNCHANGED <<hubspot, zendesk, gplay, sleeping, resp, tickets, tix, todo, users>>

\* a loop over the tickets that may be left at any ticket
TicketsAbandoned == TRUE

\* main.py 68: the for loop has gone through every ticket
TicketsExhausted == tix = Len(tickets)

\* main.py 76: the users comprehension starts to iterate unique_users
StartUsers ==
    /\ pc = "comments"
    /\ call = "none"
    /\ TicketsExhausted
    /\ pc' = "users"
    /\ todo' = unique_users
    /\ users' = << >>
    /\ UNCHANGED <<db, clientVars, tickets, tix, unique_users, trace, served>>

\* main.py 76: zendesk.fetch_user(user_id) for the next user_id of the set,
\* in whatever order the set iterates
NextUser ==
    /\ pc = "users"
    /\ call = "none"
    /\ \E user_id \in todo :
          /\ todo' = todo \ {user_id}
          /\ Enter("fetch_user", user_id)
          /\ trace' = Append(trace, Event("fetch_user", user_id))
    /\ UNCHANGED <<db, hubspot, zendesk, gplay, sleeping, resp, pc, tickets, tix, unique_users, users, served>>

\* main.py 76: the user fetched joins the list
CollectUser ==
    /\ pc = "users"
    /\ call = "fetch_user"
    /\ HasReturned
    /\ users' = Append(users, ret.value)
    /\ Leave
    /\ UNCHANGED <<db, hubspot, zendesk, gplay, sleeping, resp, pc, tickets, tix, unique_users, todo, trace, served>>

\* main.py 78-80: db.store_entities(users); the run has completed
StoreUsersStage ==
    /\ pc = "users"
    /\ call = "none"
    /\ todo = {}
    /\ \E fault \in StoreFaults :
        LET txn == Faulty(StoreEntityRows(Txn(db), users), fault)
        IN  /\ db' = ConnExit(db, txn)
            /\ pc' = IF txn.exc # "none" THEN Reraised(pc) ELSE "done"
    /\ trace' = Append(trace, Event("store_entities", "fetch_user"))
    /\ UNCHANGED <<clientVars, tickets, tix, unique_users, todo, users, served>>

\* main.py 82-84: except Exception: logger.error(...); raise
Abort ==
    /\ pc \notin {"done", "raised"}
    /\ HasRaised
    /\ pc' = Reraised(pc)
    /\ UNCHANGED <<db, clientVars, tickets, tix, unique_users, todo, users, trace, served>>

InitMainVars ==
    /\ pc = "contacts"
    /\ tickets = << >>
    /\ tix = 0
    /\ unique_users = {}
    /\ todo = {}
    /\ users = << >>
    /\ trace = << Event("fetch_contacts", PyNone) >>
    /\ served = << >>

IdleMainVars ==
    /\ pc = "none"
    /\ tickets = << >>
    /\ tix = 0
    /\ unique_users = {}
    /\ todo = {}
    /\ users = << >>
    /\ trace = << >>
    /\ served = << >>

\* main.py 20-34: the configuration is loaded, the database and the HubSpot
\* client are constructed, and fetch_contacts is entered
InitRunClient ==
    /\ call = "fetch_contacts"
    /\ callArg = PyNone
    /\ acc = << >>
    /\ cursor = PyNone
    /\ ret = Running
    /\ hubspot = NewClientRateLimit
    /\ zendesk = NewClientRateLimit
    /\ gplay = NewGooglePlay
    /\ sleeping = 0
    /\ resp = NoResponse
    /\ reqs = << >>
    /\ pages = << >>

----------------------------------------------------------------------------
(* Specifications *)

\* the normalizers, each applied to every raw record of its kind
InitNorm == InitNormVars /\ IdleStoreVars /\ IdleClientVars /\ IdleMainVars
NextNorm == NormalizeRecord /\ UNCHANGED <<storeVars, clientVars, mainVars>>
SpecNorm == InitNorm /\ [][NextNorm]_vars

\* the stores, each method under any sequence of calls
InitStore == InitStoreVars /\ IdleNormVars /\ IdleClientVars /\ IdleMainVars
NextStore ==
    \/ StoreEntitiesCall /\ UNCHANGED <<normVars, clientVars, mainVars>>
    \/ StoreRelationshipsCall /\ UNCHANGED <<normVars, clientVars, mainVars>>
    \/ StoreInteractionsCall /\ UNCHANGED <<normVars, clientVars, mainVars>>
    \/ StoreContactsCall /\ UNCHANGED <<normVars, clientVars, mainVars>>
    \/ StoreCommentsCall /\ UNCHANGED <<normVars, clientVars, mainVars>>
    \/ OldStoreCommentsCall /\ UNCHANGED <<normVars, clientVars, mainVars>>
SpecStore == InitStore /\ [][NextStore]_vars

\* the clients, each method called once and answered in any way
InitClient == InitClientVars /\ IdleNormVars /\ IdleStoreVars /\ IdleMainVars
NextClient ==
    \/ HubSpotRequest("client") /\ UNCHANGED <<normVars, storeVars, mainVars>>
    \/ ZendeskRequest("client") /\ UNCHANGED <<normVars, storeVars, mainVars>>
    \/ WakeUp /\ UNCHANGED <<normVars, storeVars, mainVars>>
    \/ GooglePlayInit /\ UNCHANGED <<normVars, storeVars, mainVars>>
    \/ CallFetchReviews /\ UNCHANGED <<normVars, storeVars, mainVars>>
    \/ GooglePlayRequest /\ UNCHANGED <<normVars, storeVars, mainVars>>
    \/ GooglePlayRefresh /\ UNCHANGED <<normVars, storeVars, mainVars>>
    \/ GooglePlayRetry /\ UNCHANGED <<normVars, storeVars, mainVars>>
SpecClient == InitClient /\ [][NextClient]_vars

\* the sync run of main() against the vendors of scope "run"
Init == InitMainVars /\ InitRunClient /\ IdleNormVars /\ IdleStoreVars
Next ==
    \/ HubSpotRequest("run") /\ UNCHANGED <<normVars, storeVars, mainVars>>
    \/ ZendeskRequest("run") /\ UNCHANGED <<normVars, storeVars, mainVars>>
    \/ WakeUp /\ UNCHANGED <<normVars, storeVars, mainVars>>
    \/ StoreContactsStage /\ UNCHANGED <<normVars, storeGhosts>>
    \/ StoreCompaniesStage /\ UNCHANGED <<normVars, storeGhosts>>
    \/ StoreLeadsStage /\ UNCHANGED <<normVars, storeGhosts>>
    \/ StoreDealsStage /\ UNCHANGED <<normVars, storeGhosts>>
    \/ StoreTicketsStage /\ UNCHANGED <<normVars, storeGhosts>>
    \/ NextTicket /\ UNCHANGED <<normVars, storeGhosts>>
    \/ StoreCommentsStage /\ UNCHANGED <<normVars, storeGhosts>>
    \/ StartUsers /\ UNCHANGED <<normVars, storeGhosts>>
    \/ NextUser /\ UNCHANGED <<normVars, storeGhosts>>
    \/ CollectUser /\ UNCHANGED <<normVars, storeGhosts>>
    \/ StoreUsersStage /\ UNCHANGED <<normVars, storeGhosts>>
    \/ Abort /\ UNCHANGED <<normVars, storeGhosts>>
Spec == Init /\ [][Next]_vars

\* what every step of a run moves forward: the stage, the calls made, the
\* exchanges of the call in progress, the suspension, the users collected
progress == <<pc, Len(trace), Len(reqs), sleeping, Len(users)>>

\* main() is one sequential program: a step that can be taken is taken
FairSpec == Spec /\ WF_progress(Next)


----------------------------------------------------------------------------
(* Claims about the normalizers (SpecNorm) *)

Normalized == normOut # Pending

\* the path of the record's identifier
IdPath(kind) ==
    CASE kind = "user"   -> << "user", "id" >>
      [] kind = "review" -> << "reviewId" >>
      [] OTHER           -> << "id" >>

HasIdentifier == IdPath(normKind) \in Fields(normKind, normRaw)

\* the raw record with the field at path p given another value
Altered(p) == AlterAt(normRaw, p, OtherValue(p, ValueAt(normRaw, p)))

\* the fields of the raw record whose value leaves no trace in the canonical record
DroppedFields ==
    { p \in Fields(normKind, normRaw) :
        Normalize(normKind, Altered(p), NormTid, normNow) = normOut }

\* C3: every field of a raw record is promoted to a named column or can be
\* recovered from json_payload.  A field that is promoted or recoverable
\* shows in the canonical record, so changing the value of any one field of
\* the raw record must change the canonical record.
C3_NoFieldDropped ==
    (Normalized /\ ~IsExc(normOut)) => DroppedFields = {}

\* each named column other than the id, with the raw fields it is filled from
ColumnSources(kind) ==
    CASE kind = "contact" ->
            { << "name", { << "properties", "firstname" >>, << "properties", "lastname" >> } >>,
              << "email", { << "properties", "email" >> } >>,
              << "created_at", { << "properties", "createdate" >> } >>,
              << "updated_at", { << "properties", "lastmodifieddate" >> } >> }
      [] kind = "company" ->
            { << "name", { << "properties", "name" >> } >>,
              << "domain", { << "properties", "domain" >> } >>,
              << "created_at", { << "properties", "createdate" >> } >>,
              << "updated_at", { << "properties", "lastmodifieddate" >> } >> }
      [] kind = "deal" ->
            { << "name", { << "properties", "dealname" >> } >>,
              << "status", { << "properties", "dealstage" >> } >>,
              << "amount", { << "properties", "amount" >> } >>,
              << "created_at", { << "properties", "createdate" >> } >>,
              << "updated_at", { << "properties", "lastmodifieddate" >> } >> }
      [] kind = "ticket" ->
            { << "name", { << "subject" >> } >>,
              << "status", { << "status" >> } >>,
              << "created_at", { << "created_at" >> } >>,
              << "updated_at", { << "updated_at" >> } >> }
      [] kind = "comment" ->
            { << "author_id", { << "author_id" >> } >>,
              << "body", { << "body" >> } >>,
              << "created_at", { << "created_at" >> } >>,
              << "is_public", { << "public" >> } >> }
      [] kind = "user" ->
            { << "name", { << "user", "name" >> } >>,
              << "email", { << "user", "email" >> } >>,
              << "role", { << "user", "role" >> } >>,
              << "created_at", { << "user", "created_at" >> } >>,
              << "updated_at", { << "user", "updated_at" >> } >> }
      [] kind = "review" ->
            { << "rating", { << "comments", 1, "userComment", "starRating" >> } >>,
              << "comment", { << "comments", 1, "userComment", "text" >> } >> }

\* the columns whose raw fields are all absent from the raw record
ColumnsLacking ==
    { cs[1] : cs \in { c \in ColumnSources(normKind) :
                         c[2] \cap Fields(normKind, normRaw) = {} } }

ColumnIsEmptyString(col) ==
    /\ ~IsExc(normOut)
    /\ col \in DOMAIN normOut
    /\ normOut[col] = ""

EmptyCommentList ==
    normKind = "review" /\ "comments" \in DOMAIN normRaw /\ normRaw["comments"] = << >>

CommentLacksAuthor == normKind = "comment" /\ "author_id" \notin DOMAIN normRaw

C14_MissingIdentifierRaises ==
    (Normalized /\ ~HasIdentifier) => IsExc(normOut)

----------------------------------------------------------------------------
(* Claims about the stores (SpecStore) *)

RowKey(row) == << row["id"], row["source"] >>

\* C1: after any sequence of entity upserts the store holds exactly one row per
\* (id, source), and that row is the row of the most recent upsert for the key:
\* every column, json_payload included, comes from that upsert alone.
C1_OneRowPerKeyLastWriteWins ==
    /\ \A key \in DOMAIN upserted :
          { r \in db.entities : RowKey(r) = key } = { EntityRow(upserted[key].entity) }
    /\ \A r \in db.entities : RowKey(r) \in DOMAIN upserted

\* a record with an email has been replaced by one without: the row has no email
C1_Witness ==
    /\ storeCall.method = "store_entities"
    /\ \E key \in DOMAIN upserted :
          /\ upserted[key].replaced
          /\ "email" \notin DOMAIN upserted[key].entity
          /\ \E r \in db.entities : RowKey(r) = key /\ r["email"] = "" /\ r["name"] = "Bob"

\* the keys upserted so far that share their vendor id with a key of another source
SharedIdKeys ==
    { key \in DOMAIN upserted :
        \E other \in DOMAIN upserted : other[1] = key[1] /\ other[2] # key[2] }

\* C15: two entities with the same vendor id and different sources are both
\* in the store once both have been upserted, whichever was upserted first:
\* each has its own row, with the values of its own last upsert.
C15_SameIdOtherSourceCoexist ==
    \A key \in SharedIdKeys :
        \E r \in db.entities :
            /\ r["id"] = key[1]
            /\ r["source"] = key[2]
            /\ r = EntityRow(upserted[key].entity)

\* a hubspot contact and a zendesk user of the same id have both been
\* upserted, and the store holds the two rows
C15_Witness ==
    /\ storeCall.method = "store_entities"
    /\ storeCall.exc = "none"
    /\ SharedIdKeys # {}
    /\ \E r, q \in db.entities :
          /\ r["id"] = q["id"]
          /\ r["source"] = "hubspot" /\ r["type"] = "contact"
          /\ q["source"] = "zendesk" /\ q["type"] = "user"

\* C10: a batch write that raises leaves the store as it was before the call.
C10_FailedBatchLeavesStoreUnchanged ==
    [][storeCall'.exc # "none" => (db' = db /\ ldb' = ldb)]_vars

\* a call of one of the per-vendor store methods failed at a later row, after
\* the transaction had written earlier rows
C10_Witness ==
    /\ storeCall.method \in {"store_contacts", "store_comments", "old_store_comments"}
    /\ storeCall.exc = "KeyError"
    /\ storeCall.wrote

\* what a successful relationship upsert does to the relationship rows: the
\* rows there stay as they are, and each record of the batch makes one more
\* row, under an id no row had
AppendStep ==
    (storeCall'.method = "store_relationships" /\ storeCall'.exc = "none") =>
        LET batch == storeCall'.batch
            added == db'.relationships \ db.relationships
        IN  /\ db.relationships \subseteq db'.relationships
            /\ Cardinality(db'.relationships) = Cardinality(db.relationships) + Len(batch)
            /\ \A r \in added : \A q \in db.relationships : r["id"] # q["id"]
            /\ \A r, q \in db'.relationships : r["id"] = q["id"] => r = q
            /\ \A i \in DOMAIN batch :
                  Cardinality({ r \in added : Without(r, {"id"}) = batch[i] })
                      = Cardinality({ j \in DOMAIN batch : batch[j] = batch[i] })

\* C12: a relationship upsert of n records adds n rows under fresh surrogate
\* ids and changes no row already stored, so a relationship upserted again is
\* stored once more.
C12_RelationshipsAccumulate == [][AppendStep]_vars

\* a call has stored a relationship that an earlier call had stored: two rows
\* hold it, under two ids
C12_Witness ==
    /\ storeCall.method = "store_relationships"
    /\ storeCall.exc = "none"
    /\ Len(storeCall.batch) = 1
    /\ Cardinality(db.relationships) = 2
    /\ \A r \in db.relationships : Without(r, {"id"}) = storeCall.batch[1]

CommentStores == {"store_interactions", "store_comments", "old_store_comments"}

\* the table a comment store writes comments to, and the row it makes of a record
CommentTable(method, tables, ltables) ==
    CASE method = "store_interactions" -> tables.interactions
      [] method = "store_comments"     -> ltables.comments
      [] method = "old_store_comments" -> ltables.old_comments

CommentRowOf(method, rec) ==
    IF method = "store_interactions" THEN [c \in InteractionColumns |-> rec[c]]
    ELSE CommentRow(rec)

\* the last record of a batch that has the given id
LastWithId(batch, id) ==
    batch[CHOOSE i \in DOMAIN batch :
            /\ batch[i]["id"] = id
            /\ \A j \in DOMAIN batch : batch[j]["id"] = id => j <= i]

OneRowPerId(table) == \A r, q \in table : r["id"] = q["id"] => r = q

\* what a successful comment upsert does to the comment rows: an id of the
\* batch gets the one row made of the last record of the batch with that id,
\* every other id keeps its row
UpsertStep ==
    (storeCall'.method \in CommentStores /\ storeCall'.exc = "none") =>
        LET method == storeCall'.method
            batch  == storeCall'.batch
            old    == CommentTable(method, db, ldb)
            new    == CommentTable(method, db', ldb')
            ids    == { batch[i]["id"] : i \in DOMAIN batch }
        IN  /\ \A id \in ids :
                  { r \in new : r["id"] = id } = { CommentRowOf(method, LastWithId(batch, id)) }
            /\ { r \in new : r["id"] \notin ids } = { r \in old : r["id"] \notin ids }

\* C13: after any sequence of comment upserts the store holds at most one
\* comment row per id, and the row of an id carries the values of the most
\* recent upsert of that id.
C13_OneCommentRowPerIdLastWriteWins ==
    /\ [][UpsertStep]_vars
    /\ [](\A method \in CommentStores : OneRowPerId(CommentTable(method, db, ldb)))

\* a batch has upserted the same comment id twice with different bodies, over
\* another comment already stored: the row of the id carries the second body
C13_Witness ==
    /\ storeCall.method \in CommentStores
    /\ storeCall.exc = "none"
    /\ Len(storeCall.batch) = 2
    /\ storeCall.batch[1]["id"] = storeCall.batch[2]["id"]
    /\ storeCall.batch[1]["body"] # storeCall.batch[2]["body"]
    /\ LET table == CommentTable(storeCall.method, db, ldb)
       IN  /\ Cardinality(table) = 2
           /\ \E r \in table : /\ r["id"] = storeCall.batch[2]["id"]
                                /\ r["body"] = storeCall.batch[2]["body"]

----------------------------------------------------------------------------
(* Claims about the clients (SpecClient) *)

RateLimited == HubSpotMethods \cup ZendeskMethods
PagedMethods == {"fetch_contacts", "fetch_companies", "fetch_deals", "fetch_tickets", "fetch_reviews"}

\* the raw records of a page, and the vendor id of a raw record
RawOf(page) ==
    IF call = "fetch_reviews" THEN Get(page, "reviews", << >>) ELSE Get(page, "results", << >>)
RawId(rawrec) == IF call = "fetch_reviews" THEN rawrec["reviewId"] ELSE rawrec["id"]

RECURSIVE Flatten(_)
Flatten(seqs) == IF seqs = << >> THEN << >> ELSE Head(seqs) \o Flatten(Tail(seqs))

\* the ids of the raw records served, page after page
ServedIds == Flatten([i \in DOMAIN pages |->
                 [j \in DOMAIN RawOf(pages[i]) |-> RawId(RawOf(pages[i])[j])]])

\* the raw contacts served whose lifecyclestage is "lead" in any letter case
ServedLeads ==
    SelectSeq(Flatten([i \in DOMAIN pages |-> RawOf(pages[i])]),
              LAMBDA c : Lower(Get(Get(c, "properties", EmptyDict), "lifecyclestage", "")) = "lead")

\* C2: once fetch_leads has ended with every request answered 200, it has
\* returned one Relationship per served contact whose lifecyclestage is "lead"
\* case-insensitively, parent and child carrying the contact's id, and none
\* for any other contact.
C2_OneLeadPerLeadContact ==
    (call = "fetch_leads" /\ ret # Running /\ \A i \in DOMAIN reqs : reqs[i].status = 200) =>
        /\ HasReturned
        /\ Len(ret.value) = Len(ServedLeads)
        /\ \A i \in DOMAIN ret.value :
              /\ ret.value[i]["parent_id"] = ServedLeads[i]["id"]
              /\ ret.value[i]["child_id"] = ServedLeads[i]["id"]

\* the next-page marker of a page: paging.next (HubSpot), next_page (Zendesk),
\* tokenPagination.nextPageToken (Google Play)
HasMarker(page) ==
    CASE call \in HubSpotMethods -> HasDict(page, "paging") /\ HasDict(page["paging"], "next")
      [] call = "fetch_tickets"  -> Truthy(Get(page, "next_page", PyNone))
      [] call = "fetch_reviews"  ->
            Truthy(Get(Get(page, "tokenPagination", EmptyDict), "nextPageToken", PyNone))

\* the list requests that were answered with a page
Answered == SelectSeq(reqs, LAMBDA x : x.endpoint # TokenEndpoint /\ x.status = 200)

\* C4: a paged fetch (HubSpot contacts, companies, deals; Zendesk tickets;
\* Google Play reviews) goes on only past pages that carry the next-page
\* marker, returns right after the first page that lacks it, has then sent
\* exactly one answered request per page, and returns one normalized record
\* per raw record, in page order and within-page order.
C4_PagedFetchReturnsEveryPageInOrder ==
    call \in PagedMethods =>
        /\ \A i \in 1..(Len(pages) - 1) : HasMarker(pages[i])
        /\ (ret = Running /\ pages # << >>) => HasMarker(pages[Len(pages)])
        /\ HasReturned =>
              /\ pages # << >>
              /\ ~HasMarker(pages[Len(pages)])
              /\ Len(Answered) = Len(pages)
              /\ call \in RateLimited => Len(reqs) = Len(pages)
              /\ [i \in DOMAIN ret.value |-> ret.value[i]["id"]] = ServedIds

C4_Witness ==
    /\ call \in PagedMethods
    /\ HasReturned
    /\ Len(pages) = MaxPages
    /\ \A i \in DOMAIN pages : RawOf(pages[i]) # << >>
    /\ \E i \in DOMAIN pages : Len(RawOf(pages[i])) = 2
    /\ Len(ret.value) > MaxPages

IsToken(i)  == reqs[i].endpoint = TokenEndpoint
IsGet(i)    == reqs[i].endpoint = "reviews"
IsResend(i) == IsGet(i) /\ i > 1 /\ IsToken(i - 1)
IsLast(i)   == i = Len(reqs)

\* C8: in GooglePlayClient._make_request a token refresh happens only right
\* after a first send answered 401, and is followed by at most one re-send of
\* the same request; a re-send that fails is raised and is the last exchange;
\* a first send that fails with another status is raised without any refresh
\* or re-send.
C8_OneRefreshOneResend ==
    call = "fetch_reviews" =>
        \A i \in DOMAIN reqs :
            /\ IsToken(i) =>
                  /\ i > 1 /\ IsGet(i - 1) /\ ~IsResend(i - 1) /\ reqs[i - 1].status = 401
                  /\ IF IsLast(i)
                     THEN HasRaised \/ (ret = Running /\ gplay.step = "retry")
                     ELSE IsResend(i + 1) /\ reqs[i + 1].params = reqs[i - 1].params
            /\ (IsGet(i) /\ ~IsResend(i) /\ reqs[i].status = 401) =>
                  IF IsLast(i) THEN ret = Running /\ gplay.step = "refresh" ELSE IsToken(i + 1)
            /\ (IsResend(i) /\ reqs[i].status # 200) =>
                  IsLast(i) /\ HasRaised
            /\ (IsGet(i) /\ reqs[i].status \notin {200, 401}) =>
                  IsLast(i) /\ HasRaised

C8_Witness ==
    /\ call = "fetch_reviews"
    /\ HasRaised
    /\ Len(reqs) >= 3
    /\ IsResend(Len(reqs))
    /\ reqs[Len(reqs)].status = 401

\* the exchange a step has added to the log is a successful refresh
Refreshed ==
    /\ Len(reqs') = Len(reqs) + 1
    /\ LET x == reqs'[Len(reqs')]
       IN  /\ x.endpoint = TokenEndpoint
           /\ x.status = 200
           /\ Truthy(x.token)
           /\ gplay'.access_token = x.token
           /\ gplay'.authorization = Bearer(x.token)

\* the Authorization header changes only by a successful refresh, and a
\* reviews request carries the header of the client
BearerStep ==
    /\ gplay'.authorization # gplay.authorization => Refreshed
    /\ (Len(reqs') = Len(reqs) + 1 /\ reqs'[Len(reqs')].endpoint = "reviews") =>
          /\ reqs'[Len(reqs')].auth = gplay.authorization
          /\ gplay'.authorization = gplay.authorization

\* a constructed client has a non-empty access token, and its Authorization
\* header is the bearer of that token
Constructed ==
    /\ Truthy(gplay.access_token)
    /\ gplay.authorization = Bearer(gplay.access_token)

\* C16: constructing the Google Play client either raises or yields a client
\* with a non-empty access token, and every reviews request, the re-send after
\* a 401 included, carries a bearer token obtained from a successful refresh.
C16_RequestsCarryRefreshedToken ==
    /\ [][BearerStep]_vars
    /\ []((call = "__init__" /\ ret # Running) => (HasRaised \/ Constructed))
    /\ []((call = "fetch_reviews" /\ reqs = << >>) => Constructed)
    /\ [](call = "fetch_reviews" =>
            \A i \in DOMAIN reqs :
                /\ IsGet(i) => reqs[i].auth \in { Bearer(t) : t \in AccessTokens }
                /\ IsResend(i) =>
                      /\ reqs[i - 1].status = 200
                      /\ reqs[i].auth = Bearer(reqs[i - 1].token))

\* a re-send has carried the token of the refresh that followed the 401, which
\* is not the token the first send carried
C16_Witness ==
    /\ call = "fetch_reviews"
    /\ Len(reqs) >= 3
    /\ IsResend(Len(reqs))
    /\ reqs[Len(reqs)].auth = Bearer(reqs[Len(reqs) - 1].token)
    /\ reqs[Len(reqs)].auth # reqs[Len(reqs) - 2].auth
    /\ reqs[Len(reqs)].status = 200

\* the cursor a page hands out, and the request parameter that carries a cursor
MarkerOf(page) ==
    CASE call \in HubSpotMethods -> page["paging"]["next"]["after"]
      [] call = "fetch_tickets"  -> PageOf(page["next_page"])
      [] call = "fetch_reviews"  -> page["tokenPagination"]["nextPageToken"]

CursorParam ==
    CASE call \in HubSpotMethods -> "after"
      [] call = "fetch_tickets"  -> "page"
      [] call = "fetch_reviews"  -> "token"

\* the cursor request i carries, None when it carries none
Carried(i) == Get(reqs[i].params, CursorParam, PyNone)

\* the number of pages served before request i
PagesBefore(i) ==
    Len(SelectSeq(SubSeq(reqs, 1, i - 1),
                  LAMBDA x : x.endpoint # TokenEndpoint /\ x.status = 200))

\* C19: in every paged fetch the first request carries no cursor, each later
\* request carries the cursor of the response just before it, whatever its
\* value, and no page is requested twice: requests sent after different
\* numbers of pages differ in their cursor.
C19_RequestsCarryPrecedingCursor ==
    call \in PagedMethods =>
        \A i \in DOMAIN reqs :
            reqs[i].endpoint # TokenEndpoint =>
                /\ IF PagesBefore(i) = 0 THEN Carried(i) = PyNone
                   ELSE Carried(i) = MarkerOf(pages[PagesBefore(i)])
                /\ \A j \in 1..(i - 1) :
                      (reqs[j].endpoint # TokenEndpoint /\ PagesBefore(j) # PagesBefore(i))
                          => Carried(j) # Carried(i)

\* the client the method in progress belongs to
RateLimitOf(method) == IF method \in HubSpotMethods THEN hubspot ELSE zendesk

\* what C9 asks of one step of a rate-limited client
SuspensionStep ==
    call \in RateLimited =>
        /\ (Len(reqs') = Len(reqs) + 1 /\ resp'.status # 0) =>
              /\ (sleeping' > 0) <=> (RateLimitOf(call)'.rate_limit_remaining <= 5)
              /\ HubSpotRemainingHeader \in DOMAIN resp'.headers =>
                    hubspot'.rate_limit_remaining = ParseInt(resp'.headers[HubSpotRemainingHeader])
              /\ ZendeskRemainingHeader \in DOMAIN resp'.headers =>
                    zendesk'.rate_limit_remaining = ParseInt(resp'.headers[ZendeskRemainingHeader])
        /\ sleeping > 0 =>
              /\ reqs' = reqs
              /\ resp' = resp
              /\ sleeping' = 0
              /\ IF resp.status = 200
                 THEN pages' = Append(pages, resp.body)
                 ELSE pages' = pages /\ ret' = Raise("HTTPError")

\* C9: HubSpot and Zendesk: when a response arrives the client suspends if
\* and only if the remaining-budget estimate it took from that response is at
\* most 5; while it is suspended it sends no request; and when the suspension
\* ends it goes on with the response it holds, without sending it again.
C9_SuspendsIffBudgetLow == [][SuspensionStep]_vars

C9_Witness ==
    /\ call \in RateLimited
    /\ sleeping = 0
    /\ resp.status = 200
    /\ RateLimitOf(call).rate_limit_remaining = 5
    /\ pages # << >>
    /\ pages[Len(pages)] = resp.body

RateLimitHeaders ==
    {HubSpotRemainingHeader, HubSpotResetHeader, ZendeskRemainingHeader, ZendeskResetHeader}

\* a step in which a response without any rate-limit header arrives
BareResponse ==
    /\ call \in RateLimited
    /\ Len(reqs') = Len(reqs) + 1
    /\ resp'.status # 0
    /\ RateLimitHeaders \cap DOMAIN resp'.headers = {}

\* what C20 asks of one step of a rate-limited client
DefaultStep ==
    BareResponse =>
        /\ RateLimitOf(call)'.rate_limit_remaining = InitialRemaining
        /\ sleeping' = 0

\* C20: for both HubSpot and Zendesk a response without rate-limit headers
\* sets the remaining-budget estimate to the default 100 and does not suspend
\* the client.
C20_NoHeadersNoSuspension == [][DefaultStep]_vars

----------------------------------------------------------------------------
(* Claims about the run (Spec) *)

UserCalls == SelectSeq(trace, LAMBDA e : e.op = "fetch_user")
UsersFetched == { UserCalls[i].arg : i \in DOMAIN UserCalls }
AuthorsServed == UNION { served[i] : i \in DOMAIN served }

UserStageOver == pc = "done" \/ (pc = "users" /\ call = "none" /\ todo = {})

\* C6: in a run fetch_user is called at most once per id and only for author
\* ids that appear in the comments served for a fetched ticket; when the user
\* stage is over the ids fetched are exactly the union of the per-ticket
\* author sets.
C6_OneFetchPerDistinctAuthor ==
    /\ \A i, j \in DOMAIN UserCalls : i # j => UserCalls[i].arg # UserCalls[j].arg
    /\ UsersFetched \subseteq AuthorsServed
    /\ UserStageOver => (Len(served) = Len(tickets) /\ UsersFetched = AuthorsServed)

\* two tickets share an author, and the run has fetched two users in all
C6_Witness ==
    /\ pc = "done"
    /\ Len(served) = 2
    /\ served[1] \cap served[2] # {}
    /\ Cardinality(AuthorsServed) = 2
    /\ Len(UserCalls) = 2

\* the fields of a raw contact that no Entity column takes
NonPromoted(contact) ==
    Put(Without(contact, {"id"}), "properties",
        Without(contact["properties"],
                {"firstname", "lastname", "email", "createdate", "lastmodifieddate"}))

\* the contact listing came as two pages of one contact each, the first with
\* an after cursor and the second with none
TwoPagesOfOne ==
    /\ Len(pages) = 2
    /\ \A i \in DOMAIN pages : Len(RawOf(pages[i])) = 1
    /\ HasMarker(pages[1])
    /\ ~HasMarker(pages[2])

ContactStageEnds ==
    (pc = "contacts" /\ pc' = "companies" /\ TwoPagesOfOne) =>
        LET inputs == { RawOf(pages[i])[1] : i \in DOMAIN pages }
        IN  /\ Cardinality(db'.entities) = 2
            /\ \A r \in db'.entities : r["source"] = "hubspot" /\ r["type"] = "contact"
            /\ { r["id"] : r \in db'.entities } = { c["id"] : c \in inputs }
            /\ \A c \in inputs : \E r \in db'.entities :
                  r["id"] = c["id"] /\ JsonLoads(r["json_payload"]) = NonPromoted(c)

\* C7: when the contact listing comes as two pages of one contact each, the
\* contact stage ends with exactly two entity rows in the store, both with
\* source "hubspot" and type "contact", their ids the two input ids, and the
\* json_payload of each parsing back to the non-promoted fields of its input.
C7_TwoPagesTwoRows == [][ContactStageEnds]_vars

\* a client call of the run has raised, or main() has re-raised
Failing == HasRaised \/ pc = "raised"

\* what C11 asks of one step of the run
AbortStep ==
    /\ Failing => (pc' = "raised" /\ db' = db /\ trace' = trace /\ reqs' = reqs)
    /\ pc' = "raised" => db' = db

\* C11: once a vendor request or a store write of the run has failed, no
\* fetch or store step follows: the only step left re-raises out of main();
\* the failing step and every step after it leave the store as the last
\* committed batch left it, so the records of a failing fetch and the batch of
\* a failing store are not written.
C11_FailureAbortsTheRun ==
    /\ [][AbortStep]_vars
    /\ []((HasRaised /\ pc # "raised") => ENABLED Next)

\* the companies fetch failed after a first page: main() has re-raised, the
\* contacts committed before are in the store and no company is
C11_Witness ==
    /\ pc = "raised"
    /\ HasRaised
    /\ call = "fetch_companies"
    /\ acc # << >>
    /\ db.entities # {}
    /\ \A r \in db.entities : r["type"] = "contact"

\* the calls main() makes before the loop over the tickets, in program order
HubSpotAndTicketSteps ==
    << Event("fetch_contacts", PyNone),  Event("store_entities", "fetch_contacts"),
       Event("fetch_companies", PyNone), Event("store_entities", "fetch_companies"),
       Event("fetch_leads", PyNone),     Event("store_relationships", "fetch_leads"),
       Event("fetch_deals", PyNone),     Event("store_entities", "fetch_deals"),
       Event("fetch_tickets", TicketQuery), Event("store_entities", "fetch_tickets") >>

\* the number of calls of op among the first n calls of the run
Calls(op, n) == Cardinality({ j \in 1..n : trace[j].op = op })

\* the i-th call of the run is where the program order puts it
InOrder(i) ==
    LET e == trace[i]
    IN  IF i <= Len(HubSpotAndTicketSteps) THEN e = HubSpotAndTicketSteps[i]
        ELSE CASE e.op = "fetch_comments" ->
                    /\ trace[i - 1].op \in {"store_entities", "store_interactions"}
                    /\ Calls("fetch_comments", i) <= Len(tickets)
                    /\ e.arg = tickets[Calls("fetch_comments", i)]["id"]
               [] e.op = "store_interactions" ->
                    trace[i - 1] = Event("fetch_comments", e.arg)
               [] e.op = "fetch_user" ->
                    /\ trace[i - 1].op \in {"store_interactions", "fetch_user"}
                    /\ Calls("fetch_comments", i) = Len(tickets)
                    /\ Calls("store_interactions", i) = Len(tickets)
               [] e.op = "store_entities" ->
                    /\ e.arg = "fetch_user"
                    /\ i = Len(trace)
                    /\ trace[i - 1].op \in {"store_entities", "store_interactions", "fetch_user"}
                    /\ Calls("store_interactions", i) = Len(tickets)
               [] OTHER -> FALSE

\* a call is made only when no client call is in progress or has failed
NoOverlap == trace' # trace => (ret # Running /\ ~HasRaised)

\* C17: the steps of a run never overlap and come in the program's order:
\* each kind's upsert right after its fetch, the tickets upserted before any
\* comment is fetched, each ticket's comments upserted before the next
\* ticket's comments are fetched, and no user fetched until every ticket's
\* comments have been fetched and upserted.
C17_StepsInProgramOrder ==
    /\ [][NoOverlap]_vars
    /\ [](\A i \in DOMAIN trace : InOrder(i))

\* a run over two tickets has fetched a user: both tickets' comments were
\* fetched and upserted before
C17_Witness ==
    /\ Len(tickets) = 2
    /\ trace[Len(trace)].op = "fetch_user"
    /\ Calls("store_interactions", Len(trace)) = 2

\* every request of the call in progress was answered 200, and no store call
\* has failed
Healthy ==
    /\ \A i \in DOMAIN reqs : reqs[i].status = 200
    /\ ~(pc = "raised" /\ ~HasRaised)

\* the store call main() is about to make on what the fetch returned raises nothing
StoreAccepts ==
    /\ (HasReturned /\ call \in {"fetch_contacts", "fetch_companies", "fetch_deals", "fetch_tickets"})
          => StoreEntityRows(Txn(db), ret.value).exc = "none"
    /\ (HasReturned /\ call = "fetch_leads")
          => StoreRelationshipRows(Txn(db), ret.value).exc = "none"
    /\ (HasReturned /\ call = "fetch_comments")
          => StoreInteractionRows(Txn(db), ret.value).exc = "none"
    /\ (pc = "users" /\ call = "none" /\ todo = {})
          => StoreEntityRows(Txn(db), users).exc = "none"

\* the run has made every store call of the program, the last one with the users
Completed ==
    /\ Len(trace) >= Len(HubSpotAndTicketSteps) + 1
    /\ \A i \in DOMAIN HubSpotAndTicketSteps : trace[i] = HubSpotAndTicketSteps[i]
    /\ Calls("store_interactions", Len(trace)) = Len(tickets)
    /\ Calls("fetch_user", Len(trace)) = Len(users)
    /\ trace[Len(trace)] = Event("store_entities", "fetch_user")
    /\ \A i \in DOMAIN users : EntityRow(users[i]) \in db.entities

\* C18: a run in which every request is answered 200, the paginations end, no
\* record is malformed and no store call fails goes through every stage, makes
\* each store call and reaches Done.
C18_HealthyRunCompletes ==
    /\ []Healthy => <>(pc = "done")
    /\ [](IF Healthy THEN StoreAccepts ELSE TRUE)
    /\ [](IF pc = "done" THEN Completed ELSE TRUE)

\* a run over two tickets and two authors is done
C18_Witness ==
    /\ pc = "done"
    /\ Len(tickets) = 2
    /\ Len(users) = 2
    /\ db.interactions # {}

============================================================================
